---- MODULE Spec2Model ----
(***************************************************************************)
(* Model of qtum_bip38/bip38.py: BIP38 passphrase encryption of Qtum       *)
(* private keys (WIF codec, secp256k1 arithmetic, non-EC and EC-multiply   *)
(* engines, confirmation codes).                                           *)
(*                                                                         *)
(* Scaling.  The program works on 256-bit scalars and 16-byte AES blocks.  *)
(* The model keeps every algorithm of bip38.py as written but runs it on a *)
(* scaled cryptosystem that fits TLC's integers:                           *)
(*   - a byte of key material carries 2 bits (ByteBase = 4, 256 in the     *)
(*     program), so a private key of KeyLen = 8 bytes is a 16-bit scalar;  *)
(*   - the curve is y^2 = x^3 + 7 over F_P with P = 65419, of prime order  *)
(*     N = 64921; as for secp256k1, N < P < ByteBase^KeyLen and both are   *)
(*     close to ByteBase^KeyLen;                                           *)
(*   - every width of the program is divided by 4: AES block 16 -> 4,      *)
(*     digests and keys 32 -> 8, scrypt output 64 -> 16, seed 24 -> 6,     *)
(*     owner entropy 8 -> 2, hash160 20 -> 5.  The 4-byte checksum, the    *)
(*     prefixes, the flags and the magic numbers keep their program values *)
(*     and occupy one byte each, holding the program's octet.              *)
(* SHA-256, RIPEMD-160, scrypt and AES are library primitives; the model   *)
(* replaces them by small deterministic functions of the same shape        *)
(* (fixed-width digests, a keyed permutation of one block that rejects any *)
(* other length).                                                          *)
(***************************************************************************)
EXTENDS Integers, Sequences, FiniteSets, TLC

(***************************************************************************)
(* Widths                                                                  *)
(***************************************************************************)
\* radix of one byte of key material (256 in the program)
ByteBase == 4
\* AES block length in bytes (16 in the program)
BlockLen == 4
\* private key, digest and coordinate length (32 in the program)
KeyLen == 2 * BlockLen
\* seed length (24 in the program)
SeedLen == BlockLen + BlockLen \div 2
\* owner entropy length (8 in the program)
EntropyLen == BlockLen \div 2
\* hash160 length (20 in the program)
Hash160Len == BlockLen + 1
\* Checksum byte length
CHECKSUM_BYTE_LENGTH == 4

(***************************************************************************)
(* Constants of bip38.py                                                   *)
(***************************************************************************)
WIF_PREFIXES == [mainnet |-> 128, testnet |-> 239]
ADDRESS_PREFIXES == [mainnet |-> 58, testnet |-> 120]
Networks == {"mainnet", "testnet"}
\* 0x0142 and 0x0143 as their two bytes
BIP38_NO_EC_MULTIPLIED_PRIVATE_KEY_PREFIX == <<1, 66>>
BIP38_EC_MULTIPLIED_PRIVATE_KEY_PREFIX == <<1, 67>>
BIP38_NO_EC_MULTIPLIED_WIF_FLAG == 192
BIP38_NO_EC_MULTIPLIED_WIF_COMPRESSED_FLAG == 224
\* 0x2ce9b3e1ff39e251 and 0x2ce9b3e1ff39e253 as their eight bytes
MAGIC_LOT_AND_SEQUENCE == <<44, 233, 179, 225, 255, 57, 226, 81>>
MAGIC_NO_LOT_AND_SEQUENCE == <<44, 233, 179, 225, 255, 57, 226, 83>>
MAGIC_LOT_AND_SEQUENCE_UNCOMPRESSED_FLAG == 4
MAGIC_LOT_AND_SEQUENCE_COMPRESSED_FLAG == 36
MAGIC_NO_LOT_AND_SEQUENCE_UNCOMPRESSED_FLAG == 0
MAGIC_NO_LOT_AND_SEQUENCE_COMPRESSED_FLAG == 32
\* 0x643bf6a89a as its five bytes
CONFIRMATION_CODE_PREFIX == <<100, 59, 246, 168, 154>>
\* The field prime and the group order of the scaled curve
P == 65419
N == 64921
A_CURVE == 0
B_CURVE == 7
G_POINT == <<61364, 36794>>
UNCOMPRESSED_PRIVATE_KEY_PREFIX == 0
COMPRESSED_PRIVATE_KEY_PREFIX == 1
EVEN_COMPRESSED_PUBLIC_KEY_PREFIX == 2
ODD_COMPRESSED_PUBLIC_KEY_PREFIX == 3
UNCOMPRESSED_PUBLIC_KEY_PREFIX == 4
FLAGS ==
  [compression |-> {32, 36, 40, 44, 48, 52, 56, 60, 224, 232, 240, 248},
   lot_and_sequence |-> {4, 36, 12, 20, 28, 44, 52, 60},
   non_ec |-> {192, 224, 200, 208, 216, 232, 240, 248},
   ec |-> {0, 4, 8, 12, 16, 20, 24, 28, 32, 36, 40, 44, 48, 52, 56, 60},
   illegal |-> {196, 204, 212, 220, 228, 236, 244, 252}]

(***************************************************************************)
(* Results of operations that may raise                                    *)
(***************************************************************************)
Ok(v) == [ok |-> TRUE, val |-> v, err |-> "none"]
Err(e) == [ok |-> FALSE, val |-> <<>>, err |-> e]

\* The assignments of a function body.  Pick({ e : name \in {v} }) is e with
\* name bound to the value of v, which is evaluated once: the program's
\* "name = v" followed by the statements that compute e.  Where several are
\* stacked, the assignments are listed below the result, the last one first.
Pick(S) == CHOOSE r \in S : TRUE

(***************************************************************************)
(* utils: integers, bytes and hex strings                                  *)
(* A byte string is a sequence of naturals; a str is a sequence of ASCII   *)
(* codes.  The helpers are functions: like the program's, they are applied *)
(* to values.                                                              *)
(***************************************************************************)
\* (data.bit_length() + 7) // 8 or 1: the least number of bytes holding data
byte_width[data \in Nat] ==
  IF data < ByteBase THEN 1 ELSE 1 + byte_width[data \div ByteBase]

\* int.to_bytes(data, length, "big"), the low `length` bytes of data
to_bytes[data \in Nat, length \in Nat] ==
  IF length = 0 THEN <<>>
  ELSE Append(to_bytes[data \div ByteBase, length - 1], data % ByteBase)

\* integer_to_bytes(data) with bytes_num omitted: big-endian, minimum width
integer_to_bytes[data \in Nat] == to_bytes[data, byte_width[data]]

\* integer_to_bytes(data, bytes_num): big-endian, fixed width
integer_to_bytes_num[data \in Nat, bytes_num \in Nat] == to_bytes[data, bytes_num]

\* integer_to_bytes of a one-byte constant of the program (a flag, a version
\* or a key prefix): the single byte holding the program's octet
octet(c) == <<c>>

\* int.from_bytes(data, "big")
bytes_to_integer[data \in Seq(Nat)] ==
  IF Len(data) = 0 THEN 0
  ELSE bytes_to_integer[SubSeq(data, 1, Len(data) - 1)] * ByteBase
         + data[Len(data)]

\* Python's a ^ b on non-negative integers
xor[a \in Nat, b \in Nat] ==
  IF a = 0 THEN b
  ELSE IF b = 0 THEN a
  ELSE 2 * xor[a \div 2, b \div 2] + ((a + b) % 2)

\* the sixteen hex digits '0'..'9', 'a'..'f'
HexDigits == <<48, 49, 50, 51, 52, 53, 54, 55, 56, 57, 97, 98, 99, 100, 101, 102>>

HexValue(ch) == (CHOOSE i \in 1..16 : HexDigits[i] = ch) - 1

\* bytes_to_string(data): data.hex()
bytes_to_string[data \in Seq(Nat)] ==
  IF Len(data) = 0 THEN <<>>
  ELSE <<HexDigits[(Head(data) \div 16) + 1], HexDigits[(Head(data) % 16) + 1]>>
         \o bytes_to_string[Tail(data)]

\* get_bytes(data) on a str: unhexlify(data)
get_bytes[data \in Seq(Nat)] ==
  IF Len(data) < 2 THEN <<>>
  ELSE <<16 * HexValue(data[1]) + HexValue(data[2])>>
         \o get_bytes[SubSeq(data, 3, Len(data))]

\* python slice data[lo:hi] with 0 <= lo, clipped to the length
Slice(data, lo, hi) ==
  SubSeq(data, lo + 1, IF hi < Len(data) THEN hi ELSE Len(data))

\* python slice data[lo:]
SliceFrom(data, lo) == SubSeq(data, lo + 1, Len(data))

\* python slice data[-n:]
SliceLast(data, n) ==
  SubSeq(data, (IF Len(data) > n THEN Len(data) - n ELSE 0) + 1, Len(data))

\* python slice data[:-n]
SliceDropLast(data, n) == SubSeq(data, 1, Len(data) - n)

(***************************************************************************)
(* Library primitives on the scaled widths                                 *)
(***************************************************************************)
HashModulus == 65521

\* absorb the bytes of data into the 16-bit hash state s
Absorb[s \in Nat, data \in Seq(Nat)] ==
  IF Len(data) = 0 THEN s
  ELSE Absorb[(s * 251 + Head(data) + 1) % HashModulus, Tail(data)]

\* squeeze n bytes of key material out of the hash state s
Squeeze[s \in Nat, n \in Nat] ==
  IF n = 0 THEN <<>>
  ELSE <<(s \div 64) % ByteBase>>
         \o Squeeze[(s * 229 + 7 * n + 11) % HashModulus, n - 1]

\* hashlib.sha256(data).digest()
sha256[data \in Seq(Nat)] == Squeeze[Absorb[2, data], KeyLen]

\* double_sha256(data)
double_sha256[data \in Seq(Nat)] == sha256[sha256[data]]

\* hashlib.new("ripemd160", data).digest()
ripemd160[data \in Seq(Nat)] == Squeeze[Absorb[3, data], Hash160Len]

\* hash160(data)
hash160[data \in Seq(Nat)] == ripemd160[sha256[data]]

\* unicodedata.normalize("NFC", text): composes e + U+0301 into U+00E9
NFC[text \in Seq(Nat)] ==
  IF Len(text) < 2 THEN text
  ELSE IF text[1] = 101 /\ text[2] = 769
       THEN <<233>> \o NFC[SubSeq(text, 3, Len(text))]
       ELSE <<text[1]>> \o NFC[Tail(text)]

\* scrypt.hash(password, salt, N, r, p, buflen)
scrypt_hash[password \in Seq(Nat), salt \in Seq(Nat), n \in Nat, r \in Nat, p \in Nat, buflen \in Nat] ==
  Squeeze[Absorb[Absorb[5 + ((n + r + p) % 64), password \o <<0>>], salt], buflen]

\* the forward permutation: each byte is shifted by the key and chained to
\* the previous ciphertext byte
aes_chain[block \in Seq(Nat), key \in Seq(Nat), i \in Nat, prev \in Nat] ==
  IF i > Len(block) THEN <<>>
  ELSE <<(block[i] + key[i] + key[i + BlockLen] + prev + i) % ByteBase>>
         \o aes_chain[block, key, i + 1,
                      (block[i] + key[i] + key[i + BlockLen] + prev + i) % ByteBase]

\* the inverse permutation
aes_unchain[block \in Seq(Nat), key \in Seq(Nat), i \in Nat] ==
  IF i > Len(block) THEN <<>>
  ELSE <<(block[i] - key[i] - key[i + BlockLen]
            - (IF i = 1 THEN 0 ELSE block[i - 1]) - i) % ByteBase>>
         \o aes_unchain[block, key, i + 1]

\* AESModeOfOperationECB(key).encrypt(plaintext): a permutation of the
\* blocks of BlockLen bytes; any other length raises ValueError
aes_encrypt[key \in Seq(Nat), plaintext \in Seq(Nat)] ==
  IF Len(plaintext) # BlockLen THEN Err("aes block length")
  ELSE Ok(aes_chain[plaintext, key, 1, 0])

\* AESModeOfOperationECB(key).decrypt(ciphertext)
aes_decrypt[key \in Seq(Nat), ciphertext \in Seq(Nat)] ==
  IF Len(ciphertext) # BlockLen THEN Err("aes block length")
  ELSE Ok(aes_unchain[ciphertext, key, 1])

\* a checksum that keeps the first byte of the digest only
get_checksum_one_byte(raw) ==
  <<double_sha256[raw][1]>> \o [i \in 1..(CHECKSUM_BYTE_LENGTH - 1) |-> 0]

\* get_checksum(raw)
get_checksum(raw) == SubSeq(double_sha256[raw], 1, CHECKSUM_BYTE_LENGTH)

(***************************************************************************)
(* libs.base58: raw Base58 and Base58Check over octet strings              *)
(***************************************************************************)
\* '123456789ABCDEFGHJKLMNPQRSTUVWXYZabcdefghijkmnopqrstuvwxyz'
Base58Alphabet ==
  <<49, 50, 51, 52, 53, 54, 55, 56, 57, 65, 66, 67, 68, 69, 70, 71, 72, 74,
    75, 76, 77, 78, 80, 81, 82, 83, 84, 85, 86, 87, 88, 89, 90, 97, 98, 99,
    100, 101, 102, 103, 104, 105, 106, 107, 109, 110, 111, 112, 113, 114,
    115, 116, 117, 118, 119, 120, 121, 122>>

Base58Index(ch) == (CHOOSE i \in 1..58 : Base58Alphabet[i] = ch) - 1

\* number of leading elements of data equal to z
CountLeading[data \in Seq(Nat), z \in Nat] ==
  IF Len(data) = 0 \/ Head(data) # z THEN 0
  ELSE 1 + CountLeading[Tail(data), z]

\* n copies of z
Repeat[z \in Nat, n \in Nat] == IF n = 0 THEN <<>> ELSE <<z>> \o Repeat[z, n - 1]

StripLeading[data \in Seq(Nat), z \in Nat] ==
  SubSeq(data, CountLeading[data, z] + 1, Len(data))

\* divmod(val, 58) on the big-endian octets of val: <<quotient, remainder>>
base58_divmod[octets \in Seq(Nat), quo \in Seq(Nat), rem \in Nat] ==
  IF Len(octets) = 0 THEN <<quo, rem>>
  ELSE base58_divmod[Tail(octets),
                     Append(quo, (rem * 256 + Head(octets)) \div 58),
                     (rem * 256 + Head(octets)) % 58]

\* the Base58 digits of the integer whose octets (no leading zero) are given
base58_digits[octets \in Seq(Nat), out \in Seq(Nat)] ==
  IF Len(octets) = 0 THEN out
  ELSE base58_digits[StripLeading[base58_divmod[octets, <<>>, 0][1], 0],
                     <<Base58Alphabet[base58_divmod[octets, <<>>, 0][2] + 1]>> \o out]

\* encode(data): leading zero bytes become leading '1' characters
encode[data \in Seq(Nat)] ==
  Repeat[Base58Alphabet[1], CountLeading[data, 0]]
    \o base58_digits[StripLeading[data, 0], <<>>]

\* val * 58 + carry on the big-endian octets of val
base58_muladd[octets \in Seq(Nat), carry \in Nat, out \in Seq(Nat)] ==
  IF Len(octets) = 0 THEN (IF carry = 0 THEN out ELSE <<carry>> \o out)
  ELSE base58_muladd[SubSeq(octets, 1, Len(octets) - 1),
                     (octets[Len(octets)] * 58 + carry) \div 256,
                     <<(octets[Len(octets)] * 58 + carry) % 256>> \o out]

base58_value[chars \in Seq(Nat), acc \in Seq(Nat)] ==
  IF Len(chars) = 0 THEN acc
  ELSE base58_value[Tail(chars), base58_muladd[acc, Base58Index(Head(chars)), <<>>]]

\* decode(data): the inverse of encode; no checksum is involved
decode[data \in Seq(Nat)] ==
  Repeat[0, CountLeading[data, Base58Alphabet[1]]]
    \o base58_value[StripLeading[data, Base58Alphabet[1]], <<>>]

\* the library's checksum: the first 4 bytes of the double SHA-256
base58_checksum[raw \in Seq(Nat)] ==
  SubSeq(double_sha256[raw], 1, CHECKSUM_BYTE_LENGTH)

\* check_encode(raw)
check_encode[raw \in Seq(Nat)] == encode[raw \o base58_checksum[raw]]

\* check_decode(enc): verifies and strips the 4-byte checksum
check_decode[enc \in Seq(Nat)] ==
  Pick({
    IF Len(dec) < CHECKSUM_BYTE_LENGTH
         \/ SliceLast(dec, CHECKSUM_BYTE_LENGTH)
              # base58_checksum[SliceDropLast(dec, CHECKSUM_BYTE_LENGTH)]
    THEN Err("base58 checksum")
    ELSE Ok(SliceDropLast(dec, CHECKSUM_BYTE_LENGTH))
    : dec \in {decode[enc]}})

(***************************************************************************)
(* Elliptic curve core                                                     *)
(***************************************************************************)
\* Python's (a * b) % m on unbounded integers, for m < 2^16: evaluated in
\* two 8-bit limbs of a so that no product exceeds 32 bits
mul_mod[a \in Int, b \in Int, m \in Int] ==
  (((((a % m) \div 256) * (b % m)) % m) * 256 + ((a % m) % 256) * (b % m)) % m

mod_inv_loop[lm \in Int, hm \in Int, resto \in Int, high \in Int] ==
  IF resto > 1
  THEN mod_inv_loop[hm - lm * (high \div resto), lm,
                    high - resto * (high \div resto), resto]
  ELSE lm

mod_inv[a \in Int, n \in Int] == mod_inv_loop[1, 0, a % n, n] % n

ec_add[a \in Seq(Int), b \in Seq(Int)] ==
  Pick({
  Pick({
    <<x, (mul_mod[LamAdd, a[1] - x, P] - a[2]) % P>>
    : x \in {(mul_mod[LamAdd, LamAdd, P] - a[1] - b[1]) % P}})
    : LamAdd \in {mul_mod[b[2] - a[2], mod_inv[b[1] - a[1], P], P]}})

ec_double[a \in Seq(Int)] ==
  Pick({
  Pick({
    <<x, (mul_mod[Lam, a[1] - x, P] - a[2]) % P>>
    : x \in {(mul_mod[Lam, Lam, P] - 2 * a[1]) % P}})
    : Lam \in {mul_mod[mul_mod[3 * a[1], a[1], P] + A_CURVE, mod_inv[2 * a[2], P], P]}})

\* str(bin(n))[2:], most significant bit first
bin[n \in Nat] == IF n < 2 THEN <<n>> ELSE Append(bin[n \div 2], n % 2)

\* the accumulator left as it is instead of doubled
ecc_multiply_kept(q) == q

\* q = ec_double(q)
ecc_multiply_doubled(q) == ec_double[q]

\* one pass of the loop with the addition made before the doubling
ecc_multiply_step_add_first(q, gen_point, bit) ==
  IF bit = 1 THEN ec_double[ec_add[q, gen_point]] ELSE ec_double[q]

\* one pass of the loop of ecc_multiply
ecc_multiply_step(q, gen_point, bit) ==
  IF bit = 1
  THEN ec_add[ecc_multiply_doubled(q), gen_point]
  ELSE ecc_multiply_doubled(q)

\* the loop of ecc_multiply, from index on
ecc_multiply_loop[q \in Seq(Int), gen_point \in Seq(Int), scalar_bin \in Seq(Nat), index \in Nat] ==
  IF index > Len(scalar_bin) THEN q
  ELSE ecc_multiply_loop[ecc_multiply_step(q, gen_point, scalar_bin[index]),
                         gen_point, scalar_bin, index + 1]

\* the operands of the ec_add calls the loop makes from index on, in order
ecc_multiply_adds[q \in Seq(Int), gen_point \in Seq(Int), scalar_bin \in Seq(Nat), index \in Nat] ==
  IF index > Len(scalar_bin) THEN <<>>
  ELSE (IF scalar_bin[index] = 1
        THEN <<[a |-> ecc_multiply_doubled(q), b |-> gen_point]>>
        ELSE <<>>)
       \o ecc_multiply_adds[ecc_multiply_step(q, gen_point, scalar_bin[index]),
                            gen_point, scalar_bin, index + 1]

\* the operands of the ec_add calls of ecc_multiply(gen_point, scalar_hex)
ecc_multiply_calls[gen_point \in Seq(Int), scalar_hex \in Nat] ==
  IF scalar_hex = 0 \/ scalar_hex >= N
  THEN <<>>
  ELSE ecc_multiply_adds[gen_point, gen_point, bin[scalar_hex], 2]

ecc_multiply[gen_point \in Seq(Int), scalar_hex \in Nat] ==
  IF scalar_hex = 0 \/ scalar_hex >= N
  THEN Err("Invalid scalar or private key")
  ELSE Ok(ecc_multiply_loop[gen_point, gen_point, bin[scalar_hex], 2])

pow_mod_loop[n \in Nat, x \in Nat, y \in Nat, z \in Nat] ==
  IF y = 0 THEN n
  ELSE pow_mod_loop[IF y % 2 = 1 THEN mul_mod[n, x, z] ELSE n,
                    mul_mod[x, x, z], y \div 2, z]

pow_mod[x \in Nat, y \in Nat, z \in Nat] == pow_mod_loop[1, x, y, z]

(***************************************************************************)
(* Public keys, WIF codec, addresses                                       *)
(***************************************************************************)
\* uncompress_public_key(public_key), public_key given as bytes
uncompress_public_key(public_key) ==
  Pick({
  Pick({
  Pick({
  Pick({
  Pick({
    bytes_to_string[octet(UNCOMPRESSED_PUBLIC_KEY_PREFIX)
                      \o integer_to_bytes[x] \o integer_to_bytes[y]]
    : y \in {IF y0 % 2 # yp THEN (0 - y0) % P ELSE y0}})
    : y0 \in {pow_mod[a, (P + 1) \div 4, P]}})
    : a \in {(pow_mod[x, 3, P] + 7) % P}})
    : x \in {bytes_to_integer[SliceFrom(public_key, 1)]}})
    : yp \in {bytes_to_integer[Slice(public_key, 0, 1)] - 2}})

\* compress_public_key(public_key), public_key given as bytes
compress_public_key(public_key) ==
  Pick({
  Pick({
    IF bytes_to_integer[y] % 2 = 1
    THEN bytes_to_string[octet(ODD_COMPRESSED_PUBLIC_KEY_PREFIX) \o x]
    ELSE bytes_to_string[octet(EVEN_COMPRESSED_PUBLIC_KEY_PREFIX) \o x]
    : y \in {SliceFrom(public_key, 1 + KeyLen)}})
    : x \in {Slice(public_key, 1, 1 + KeyLen)}})

multiply_private_key(private_key_1, private_key_2) ==
  integer_to_bytes[
    mul_mod[bytes_to_integer[private_key_1], bytes_to_integer[private_key_2], N]]

multiply_public_key(public_key, private_key, public_key_type) ==
  Pick({
  Pick({
    IF ~q.ok THEN Err(q.err)
    ELSE Pick({
           IF public_key_type = "uncompressed"
           THEN Ok(get_bytes[bytes_to_string[raw]])
           ELSE IF public_key_type = "compressed"
           THEN Ok(get_bytes[compress_public_key(get_bytes[bytes_to_string[raw]])])
           ELSE Err("Invalid public key type")
           : raw \in {octet(UNCOMPRESSED_PUBLIC_KEY_PREFIX)
                      \o integer_to_bytes[q.val[1]] \o integer_to_bytes[q.val[2]]}})
    : q \in {ecc_multiply[<<bytes_to_integer[Slice(pk, 1, 1 + KeyLen)],
             bytes_to_integer[SliceFrom(pk, 1 + KeyLen)]>>,
             bytes_to_integer[private_key]]}})
    : pk \in {IF Len(public_key) = 1 + KeyLen
              THEN get_bytes[uncompress_public_key(public_key)]
              ELSE public_key}})

\* private_key_to_public_key(private_key, public_key_type), private_key as bytes
private_key_to_public_key(private_key, public_key_type) ==
  Pick({
    IF ~q.ok THEN Err(q.err)
    ELSE IF public_key_type = "uncompressed"
    THEN Ok(bytes_to_string[
              octet(UNCOMPRESSED_PUBLIC_KEY_PREFIX)
                \o integer_to_bytes[q.val[1]] \o integer_to_bytes[q.val[2]]])
    ELSE IF public_key_type = "compressed"
    THEN Ok(bytes_to_string[
              IF q.val[2] % 2 = 1
              THEN octet(ODD_COMPRESSED_PUBLIC_KEY_PREFIX) \o integer_to_bytes[q.val[1]]
              ELSE octet(EVEN_COMPRESSED_PUBLIC_KEY_PREFIX) \o integer_to_bytes[q.val[1]]])
    ELSE Err("Invalid public key type")
    : q \in {ecc_multiply[G_POINT, bytes_to_integer[private_key]]}})

\* encode_wif(private_key, network), private_key as bytes: <<wif, wif_compressed>>
encode_wif(private_key, network) ==
  IF Len(private_key) # KeyLen THEN Err("Invalid private key length")
  ELSE
  Pick({
  Pick({
    Ok(<<encode[wif_payload \o get_checksum(wif_payload)],
         encode[wif_compressed_payload \o get_checksum(wif_compressed_payload)]>>)
    : wif_compressed_payload \in {octet(WIF_PREFIXES[network]) \o private_key
                                  \o octet(COMPRESSED_PRIVATE_KEY_PREFIX)}})
    : wif_payload \in {octet(WIF_PREFIXES[network]) \o private_key}})

\* private_key_to_wif with the two results of encode_wif taken in the other
\* order
private_key_to_wif_swapped(private_key, wif_type, network) ==
  Pick({
    IF ~w.ok THEN Err(w.err)
    ELSE IF wif_type = "wif" THEN Ok(w.val[2])
    ELSE IF wif_type = "wif-compressed" THEN Ok(w.val[1])
    ELSE Err("Invalid WIF type")
    : w \in {encode_wif(private_key, network)}})

private_key_to_wif(private_key, wif_type, network) ==
  Pick({
    IF ~w.ok THEN Err(w.err)
    ELSE IF wif_type = "wif" THEN Ok(w.val[1])
    ELSE IF wif_type = "wif-compressed" THEN Ok(w.val[2])
    ELSE Err("Invalid WIF type")
    : w \in {encode_wif(private_key, network)}})

\* the lines of decode_wif after the network is known
decode_wif_body(raw, network) ==
  Pick({
  Pick({
    IF octet(WIF_PREFIXES[network]) # prefix_got THEN Err("Invalid WIF prefix")
    ELSE
    Pick({
    Pick({
    Pick({
      IF Len(private_key) \notin {KeyLen + 1, KeyLen} THEN Err("Invalid WIF")
      ELSE IF Len(private_key) = KeyLen + 1
      THEN Ok([private_key |->
                 SliceDropLast(private_key, Len(octet(COMPRESSED_PRIVATE_KEY_PREFIX))),
               wif_type |-> "wif-compressed", checksum |-> checksum,
               network |-> network])
      ELSE Ok([private_key |-> private_key, wif_type |-> "wif",
               checksum |-> checksum, network |-> network])
      : private_key \in {SliceDropLast(raw_without_prefix, 4)}})
      : checksum \in {SliceLast(raw_without_prefix, 4)}})
      : raw_without_prefix \in {SliceFrom(raw, prefix_length)}})
    : prefix_got \in {Slice(raw, 0, prefix_length)}})
    : prefix_length \in {Len(octet(WIF_PREFIXES[network]))}})

\* decode_wif(wif): [private_key, wif_type, checksum, network]
decode_wif(wif) ==
  Pick({
    IF Len(raw) >= 1 /\ raw[1] = WIF_PREFIXES["mainnet"]
    THEN decode_wif_body(raw, "mainnet")
    ELSE IF Len(raw) >= 1 /\ raw[1] = WIF_PREFIXES["testnet"]
    THEN decode_wif_body(raw, "testnet")
    ELSE Err("Invalid WIF")
    : raw \in {decode[wif]}})

\* wif_to_private_key(wif): the private key as a hex str
wif_to_private_key(wif) ==
  Pick({
    IF d.ok THEN Ok(bytes_to_string[d.val.private_key]) ELSE Err(d.err)
    : d \in {decode_wif(wif)}})

get_wif_type(wif) ==
  Pick({
    IF d.ok THEN Ok(d.val.wif_type) ELSE Err(d.err)
    : d \in {decode_wif(wif)}})

get_wif_checksum(wif) ==
  Pick({
    IF d.ok THEN Ok(bytes_to_string[d.val.checksum]) ELSE Err(d.err)
    : d \in {decode_wif(wif)}})

get_wif_network(wif) ==
  Pick({
    IF d.ok THEN Ok(d.val.network) ELSE Err(d.err)
    : d \in {decode_wif(wif)}})

\* public_key_to_addresses(public_key, network), public_key as bytes
public_key_to_addresses(public_key, network) ==
  IF network \notin {"mainnet", "testnet"} THEN Err("Invalid network")
  ELSE
  Pick({
  Pick({
    Ok(encode[payload \o get_checksum(payload)])
    : payload \in {octet(ADDRESS_PREFIXES[network]) \o public_key_hash}})
    : public_key_hash \in {hash160[public_key]}})

(***************************************************************************)
(* Envelope layout                                                         *)
(***************************************************************************)
\* prefix (2) + flag (1) + address_hash (4): offset 7 of the encrypted WIF
HeaderLen == 2 + 1 + CHECKSUM_BYTE_LENGTH
\* length of a decoded encrypted WIF (43 in the program)
EncryptedWifLen == HeaderLen + 2 * BlockLen + CHECKSUM_BYTE_LENGTH
\* length of a decoded intermediate code (49 in the program)
IntermediateLen == 8 + EntropyLen + 1 + KeyLen
\* length of a decoded confirmation code (51 in the program)
ConfirmationLen == 5 + 1 + CHECKSUM_BYTE_LENGTH + EntropyLen + 1 + KeyLen
\* length of the owner salt of the lot/sequence form (4 in the program)
SaltLen == EntropyLen \div 2
\* scrypt's default buflen (64 in the program)
ScryptLen == 4 * BlockLen
None == <<>>
Some(v) == <<v>>

(***************************************************************************)
(* Non-EC-multiplied encryption                                            *)
(***************************************************************************)
\* aes.encrypt(integer_to_bytes(bytes_to_integer(a) ^ bytes_to_integer(b)))
encrypt_xor(key, a, b) ==
  aes_encrypt[key, integer_to_bytes[xor[bytes_to_integer[a], bytes_to_integer[b]]]]

\* the lines of bip38_encrypt after wif_type, flag, private_key (a hex str)
\* and public_key_type are set
bip38_encrypt_body(flag, private_key, public_key_type, passphrase, network) ==
  Pick({
    IF ~public_key.ok THEN Err(public_key.err)
    ELSE
    Pick({
      IF ~address.ok THEN Err(address.err)
      ELSE
      Pick({
      Pick({
      Pick({
      Pick({
      Pick({
        IF ~encrypted_half_1.ok THEN Err(encrypted_half_1.err)
        ELSE
        Pick({
          IF ~encrypted_half_2.ok THEN Err(encrypted_half_2.err)
          ELSE
          Pick({
            Ok(encode[encrypted_private_key
                        \o get_checksum(encrypted_private_key)])
            : encrypted_private_key \in {BIP38_NO_EC_MULTIPLIED_PRIVATE_KEY_PREFIX \o flag \o address_hash
                                         \o encrypted_half_1.val \o encrypted_half_2.val}})
          : encrypted_half_2 \in {encrypt_xor(derived_half_2,
                                  get_bytes[Slice(private_key, 2 * BlockLen, 4 * BlockLen)],
                                  Slice(derived_half_1, BlockLen, 2 * BlockLen))}})
        : encrypted_half_1 \in {encrypt_xor(derived_half_2,
                                get_bytes[Slice(private_key, 0, 2 * BlockLen)],
                                Slice(derived_half_1, 0, BlockLen))}})
        : derived_half_2 \in {Slice(key, 2 * BlockLen, 4 * BlockLen)}})
        : derived_half_1 \in {Slice(key, 0, 2 * BlockLen)}})
        : key \in {scrypt_hash[NFC[passphrase], address_hash, 16384, 8, 8, ScryptLen]}})
        : address_hash \in {get_checksum(address.val)}})
      : address \in {public_key_to_addresses(get_bytes[public_key.val], network)}})
    : public_key \in {private_key_to_public_key(get_bytes[private_key], public_key_type)}})

\* bip38_encrypt with the lot/sequence bit set in the flag it emits
bip38_encrypt_lot_bit(wif, passphrase, network) ==
  Pick({
    IF ~wif_type.ok THEN Err(wif_type.err)
    ELSE IF wif_type.val \in {"wif", "wif-compressed"}
    THEN Pick({
           bip38_encrypt_body(
             octet((IF wif_type.val = "wif" THEN BIP38_NO_EC_MULTIPLIED_WIF_FLAG
                    ELSE BIP38_NO_EC_MULTIPLIED_WIF_COMPRESSED_FLAG)
                   + MAGIC_LOT_AND_SEQUENCE_UNCOMPRESSED_FLAG),
             private_key.val,
             IF wif_type.val = "wif" THEN "uncompressed" ELSE "compressed",
             passphrase, network)
           : private_key \in {wif_to_private_key(wif)}})
    ELSE Err("Wrong WIF type")
    : wif_type \in {get_wif_type(wif)}})

bip38_encrypt(wif, passphrase, network) ==
  Pick({
    IF ~wif_type.ok THEN Err(wif_type.err)
    ELSE IF wif_type.val = "wif"
    THEN Pick({
           bip38_encrypt_body(octet(BIP38_NO_EC_MULTIPLIED_WIF_FLAG),
                              private_key.val, "uncompressed", passphrase, network)
           : private_key \in {wif_to_private_key(wif)}})
    ELSE IF wif_type.val = "wif-compressed"
    THEN Pick({
           bip38_encrypt_body(octet(BIP38_NO_EC_MULTIPLIED_WIF_COMPRESSED_FLAG),
                              private_key.val, "compressed", passphrase, network)
           : private_key \in {wif_to_private_key(wif)}})
    ELSE Err("Wrong WIF type")
    : wif_type \in {get_wif_type(wif)}})

(***************************************************************************)
(* Decryption of both forms                                                *)
(* The result carries scrypt, the number of scrypt.hash calls made before  *)
(* the function returned or raised.                                        *)
(***************************************************************************)
\* sequence = v % 4096, lot = (v - sequence) // 4096 (the radix is 4096 in
\* the program)
SequenceRadix == 2

\* integer_to_bytes((lot * 4096 + sequence), 4): the lot/sequence field of
\* owner_entropy
lot_and_sequence_field(lot, sequence) ==
  integer_to_bytes_num[lot * SequenceRadix + sequence, EntropyLen - SaltLen]

\* the sequence read with a radix twice as large
decoded_sequence_wide(lot_and_sequence) ==
  bytes_to_integer[lot_and_sequence] % (2 * SequenceRadix)

\* sequence = bytes_to_integer(lot_and_sequence) % 4096
decoded_sequence(lot_and_sequence) ==
  bytes_to_integer[lot_and_sequence] % SequenceRadix

\* lot = (bytes_to_integer(lot_and_sequence) - sequence) // 4096
decoded_lot(lot_and_sequence, sequence) ==
  (bytes_to_integer[lot_and_sequence] - sequence) \div SequenceRadix
Traced(r, n) ==
  Pick({
    [ok |-> b.ok, val |-> b.val, err |-> b.err, scrypt |-> n]
    : b \in {r}})

\* integer_to_bytes(bytes_to_integer(a) ^ bytes_to_integer(b))
xor_bytes(a, b) == integer_to_bytes[xor[bytes_to_integer[a], bytes_to_integer[b]]]

\* the 0x0142 branch with the range test placed after the address comparison
bip38_decrypt_no_ec_body_late_range(encrypted_wif_decode, address_hash, wif_type, public_key_type, passphrase, network, detail) ==
  Pick({
  Pick({
  Pick({
  Pick({
  Pick({
  Pick({
    IF ~decrypted_half_2.ok THEN Traced(Err(decrypted_half_2.err), 1)
    ELSE
    Pick({
      IF ~decrypted_half_1.ok THEN Traced(Err(decrypted_half_1.err), 1)
      ELSE
      Pick({
        Pick({
          IF ~public_key.ok THEN Traced(Err(public_key.err), 1)
          ELSE
          Pick({
            IF ~address.ok THEN Traced(Err(address.err), 1)
            ELSE IF get_checksum(address.val) # address_hash
            THEN Traced(Err("Incorrect passphrase or password"), 1)
            ELSE
            IF bytes_to_integer[private_key] = 0 \/ bytes_to_integer[private_key] >= N
            THEN Traced(Err("Invalid Non-EC encrypted WIF"), 1)
            ELSE
            Pick({
              IF ~wif.ok THEN Traced(Err(wif.err), 1)
              ELSE IF detail
              THEN Traced(Ok([wif |-> wif.val,
                              private_key |-> bytes_to_string[private_key],
                              wif_type |-> wif_type,
                              public_key |-> public_key.val,
                              public_key_type |-> public_key_type,
                              seed |-> None,
                              address |-> address.val,
                              lot |-> None,
                              sequence |-> None]), 1)
              ELSE Traced(Ok(wif.val), 1)
              : wif \in {private_key_to_wif(private_key, wif_type, network)}})
            : address \in {public_key_to_addresses(get_bytes[public_key.val], network)}})
          : public_key \in {private_key_to_public_key(private_key, public_key_type)}})
        : private_key \in {xor_bytes(decrypted_half_1.val \o decrypted_half_2.val, derived_half_1)}})
      : decrypted_half_1 \in {aes_decrypt[derived_half_2, encrypted_half_1]}})
    : decrypted_half_2 \in {aes_decrypt[derived_half_2, encrypted_half_2]}})
    : encrypted_half_2 \in {Slice(encrypted_wif_decode, HeaderLen + BlockLen, HeaderLen + 2 * BlockLen)}})
    : encrypted_half_1 \in {Slice(encrypted_wif_decode, HeaderLen, HeaderLen + BlockLen)}})
    : derived_half_2 \in {Slice(key, 2 * BlockLen, 4 * BlockLen)}})
    : derived_half_1 \in {Slice(key, 0, 2 * BlockLen)}})
    : key \in {scrypt_hash[NFC[passphrase], address_hash, 16384, 8, 8, ScryptLen]}})

\* the lines of the 0x0142 branch after wif_type and public_key_type are set
bip38_decrypt_no_ec_body(encrypted_wif_decode, address_hash, wif_type, public_key_type, passphrase, network, detail) ==
  Pick({
  Pick({
  Pick({
  Pick({
  Pick({
  Pick({
    IF ~decrypted_half_2.ok THEN Traced(Err(decrypted_half_2.err), 1)
    ELSE
    Pick({
      IF ~decrypted_half_1.ok THEN Traced(Err(decrypted_half_1.err), 1)
      ELSE
      Pick({
        IF bytes_to_integer[private_key] = 0 \/ bytes_to_integer[private_key] >= N
        THEN Traced(Err("Invalid Non-EC encrypted WIF"), 1)
        ELSE
        Pick({
          IF ~public_key.ok THEN Traced(Err(public_key.err), 1)
          ELSE
          Pick({
            IF ~address.ok THEN Traced(Err(address.err), 1)
            ELSE IF get_checksum(address.val) # address_hash
            THEN Traced(Err("Incorrect passphrase or password"), 1)
            ELSE
            Pick({
              IF ~wif.ok THEN Traced(Err(wif.err), 1)
              ELSE IF detail
              THEN Traced(Ok([wif |-> wif.val,
                              private_key |-> bytes_to_string[private_key],
                              wif_type |-> wif_type,
                              public_key |-> public_key.val,
                              public_key_type |-> public_key_type,
                              seed |-> None,
                              address |-> address.val,
                              lot |-> None,
                              sequence |-> None]), 1)
              ELSE Traced(Ok(wif.val), 1)
              : wif \in {private_key_to_wif(private_key, wif_type, network)}})
            : address \in {public_key_to_addresses(get_bytes[public_key.val], network)}})
          : public_key \in {private_key_to_public_key(private_key, public_key_type)}})
        : private_key \in {xor_bytes(decrypted_half_1.val \o decrypted_half_2.val, derived_half_1)}})
      : decrypted_half_1 \in {aes_decrypt[derived_half_2, encrypted_half_1]}})
    : decrypted_half_2 \in {aes_decrypt[derived_half_2, encrypted_half_2]}})
    : encrypted_half_2 \in {Slice(encrypted_wif_decode, HeaderLen + BlockLen, HeaderLen + 2 * BlockLen)}})
    : encrypted_half_1 \in {Slice(encrypted_wif_decode, HeaderLen, HeaderLen + BlockLen)}})
    : derived_half_2 \in {Slice(key, 2 * BlockLen, 4 * BlockLen)}})
    : derived_half_1 \in {Slice(key, 0, 2 * BlockLen)}})
    : key \in {scrypt_hash[NFC[passphrase], address_hash, 16384, 8, 8, ScryptLen]}})

\* the branch of bip38_decrypt for prefix 0x0142
bip38_decrypt_no_ec(encrypted_wif_decode, flag, address_hash, passphrase, network, detail) ==
  IF flag = octet(BIP38_NO_EC_MULTIPLIED_WIF_FLAG)
  THEN bip38_decrypt_no_ec_body(encrypted_wif_decode, address_hash, "wif",
                                "uncompressed", passphrase, network, detail)
  ELSE IF flag = octet(BIP38_NO_EC_MULTIPLIED_WIF_COMPRESSED_FLAG)
  THEN bip38_decrypt_no_ec_body(encrypted_wif_decode, address_hash, "wif-compressed",
                                "compressed", passphrase, network, detail)
  ELSE Traced(Err("Invalid flag"), 0)

\* the lines of the 0x0143 branch after private_key is computed
bip38_decrypt_ec_tail(flag, address_hash, lot_and_sequence, seed_b, private_key, network, detail) ==
  Pick({
    IF ~uncompressed_key.ok THEN Traced(Err(uncompressed_key.err), 2)
    ELSE
    Pick({
    Pick({
    Pick({
    Pick({
    Pick({
      IF ~address.ok THEN Traced(Err(address.err), 2)
      ELSE IF get_checksum(address.val) = address_hash
      THEN
        Pick({
          IF ~wif.ok THEN Traced(Err(wif.err), 2)
          ELSE IF detail
          THEN
            Pick({
            Pick({
              Traced(Ok([wif |-> wif.val,
                         private_key |-> bytes_to_string[private_key],
                         wif_type |-> wif_type,
                         public_key |-> public_key,
                         public_key_type |-> public_key_type,
                         seed |-> bytes_to_string[seed_b],
                         address |-> address.val,
                         lot |-> IF Len(lot_and_sequence) > 0 THEN Some(lot) ELSE None,
                         sequence |-> IF Len(lot_and_sequence) > 0
                                      THEN Some(sequence) ELSE None]), 2)
              : lot \in {decoded_lot(lot_and_sequence, sequence)}})
              : sequence \in {decoded_sequence(lot_and_sequence)}})
          ELSE Traced(Ok(wif.val), 2)
          : wif \in {private_key_to_wif(private_key, wif_type, network)}})
      ELSE Traced(Err("Incorrect passphrase or password"), 2)
      : address \in {public_key_to_addresses(get_bytes[public_key], network)}})
      : wif_type \in {IF compression THEN "wif-compressed" ELSE "wif"}})
      : public_key_type \in {IF compression THEN "compressed" ELSE "uncompressed"}})
      : public_key \in {IF compression
                        THEN compress_public_key(get_bytes[uncompressed_key.val])
                        ELSE uncompressed_key.val}})
      : compression \in {bytes_to_integer[flag] \in FLAGS.compression}})
    : uncompressed_key \in {private_key_to_public_key(private_key, "uncompressed")}})

\* the lines of the 0x0143 branch after pass_factor is computed
bip38_decrypt_ec_body(encrypted_wif_decode, flag, address_hash, owner_entropy, lot_and_sequence, pass_factor, network, detail) ==
  IF bytes_to_integer[pass_factor] = 0 \/ bytes_to_integer[pass_factor] >= N
  THEN Traced(Err("Invalid EC encrypted WIF"), 1)
  ELSE
  Pick({
  Pick({
  Pick({
    IF ~pre_public_key.ok THEN Traced(Err(pre_public_key.err), 1)
    ELSE
    Pick({
    Pick({
    Pick({
    Pick({
      IF ~d2.ok THEN Traced(Err(d2.err), 2)
      ELSE
      Pick({
      Pick({
      Pick({
      Pick({
        IF ~d1.ok THEN Traced(Err(d1.err), 2)
        ELSE
        Pick({
        Pick({
          IF bytes_to_integer[factor_b] = 0 \/ bytes_to_integer[factor_b] >= N
          THEN Traced(Err("Invalid EC encrypted WIF"), 2)
          ELSE
          Pick({
            bip38_decrypt_ec_tail(flag, address_hash, lot_and_sequence, seed_b,
                                  private_key, network, detail)
            : private_key \in {multiply_private_key(pass_factor, factor_b)}})
          : factor_b \in {double_sha256[seed_b]}})
          : seed_b \in {xor_bytes(d1.val, Slice(encrypted_seed_b, 0, BlockLen))
                        \o SliceFrom(encrypted_half_1_half_2_seed_b_last_3, BlockLen \div 2)}})
        : d1 \in {aes_decrypt[key, encrypted_half_1]}})
        : encrypted_half_1 \in {encrypted_half_1_half_1 \o encrypted_half_1_half_2}})
        : encrypted_half_1_half_2 \in {Slice(encrypted_half_1_half_2_seed_b_last_3, 0, BlockLen \div 2)}})
        : encrypted_half_1_half_2_seed_b_last_3 \in {xor_bytes(d2.val, Slice(encrypted_seed_b, BlockLen, 2 * BlockLen))}})
      : d2 \in {aes_decrypt[key, encrypted_half_2]}})
      : key \in {SliceFrom(encrypted_seed_b, 2 * BlockLen)}})
      : encrypted_seed_b \in {scrypt_hash[get_bytes[pre_public_key.val], salt, 1024, 1, 1, ScryptLen]}})
      : salt \in {address_hash \o owner_entropy}})
    : pre_public_key \in {private_key_to_public_key(pass_factor, "compressed")}})
    : encrypted_half_2 \in {SliceDropLast(SliceFrom(encrypted_wif_decode, HeaderLen + BlockLen), 4)}})
    : encrypted_half_1_half_1 \in {Slice(encrypted_wif_decode, HeaderLen + EntropyLen, HeaderLen + BlockLen)}})

\* the branch of bip38_decrypt for prefix 0x0143
bip38_decrypt_ec(encrypted_wif_decode, flag, address_hash, passphrase, network, detail) ==
  Pick({
  Pick({
  Pick({
  Pick({
  Pick({
  Pick({
    bip38_decrypt_ec_body(encrypted_wif_decode, flag, address_hash, owner_entropy,
                          lot_and_sequence, pass_factor, network, detail)
    : pass_factor \in {IF Len(lot_and_sequence) > 0
                       THEN double_sha256[pre_factor \o owner_entropy]
                       ELSE pre_factor}})
    : pre_factor \in {scrypt_hash[NFC[passphrase], owner_salt, 16384, 8, 8, KeyLen]}})
    : lot_and_sequence \in {IF has_lot THEN SliceFrom(owner_entropy, SaltLen) ELSE None}})
    : owner_salt \in {IF has_lot THEN Slice(owner_entropy, 0, SaltLen) ELSE owner_entropy}})
    : has_lot \in {bytes_to_integer[flag] \in FLAGS.lot_and_sequence}})
    : owner_entropy \in {Slice(encrypted_wif_decode, HeaderLen, HeaderLen + EntropyLen)}})

\* bip38_decrypt taking every prefix other than 0x0142 for 0x0143, whatever
\* the length
bip38_decrypt_any_prefix(encrypted_wif, passphrase, network, detail) ==
  Pick({
  Pick({
  Pick({
  Pick({
    IF prefix = BIP38_NO_EC_MULTIPLIED_PRIVATE_KEY_PREFIX
    THEN bip38_decrypt_no_ec(encrypted_wif_decode, flag, address_hash,
                             passphrase, network, detail)
    ELSE bip38_decrypt_ec(encrypted_wif_decode, flag, address_hash,
                          passphrase, network, detail)
    : address_hash \in {Slice(encrypted_wif_decode, 3, HeaderLen)}})
    : flag \in {Slice(encrypted_wif_decode, 2, 3)}})
    : prefix \in {Slice(encrypted_wif_decode, 0, 2)}})
    : encrypted_wif_decode \in {decode[encrypted_wif]}})

bip38_decrypt(encrypted_wif, passphrase, network, detail) ==
  Pick({
    IF Len(encrypted_wif_decode) # EncryptedWifLen
    THEN Traced(Err("Invalid encrypted WIF length"), 0)
    ELSE
    Pick({
    Pick({
    Pick({
      IF prefix = BIP38_NO_EC_MULTIPLIED_PRIVATE_KEY_PREFIX
      THEN bip38_decrypt_no_ec(encrypted_wif_decode, flag, address_hash,
                               passphrase, network, detail)
      ELSE IF prefix = BIP38_EC_MULTIPLIED_PRIVATE_KEY_PREFIX
      THEN bip38_decrypt_ec(encrypted_wif_decode, flag, address_hash,
                            passphrase, network, detail)
      ELSE Traced(Err("Invalid prefix"), 0)
      : address_hash \in {Slice(encrypted_wif_decode, 3, HeaderLen)}})
      : flag \in {Slice(encrypted_wif_decode, 2, 3)}})
      : prefix \in {Slice(encrypted_wif_decode, 0, 2)}})
    : encrypted_wif_decode \in {decode[encrypted_wif]}})

(***************************************************************************)
(* EC-multiplied form: intermediate code, new encrypted WIF, confirmation  *)
(***************************************************************************)
\* lot range (100000..999999 in the program) and sequence range (0..4095)
LotMin == 1
LotMax == 1
SequenceMax == SequenceRadix - 1
\* python truthiness of an Optional[int]
Truthy(x) == x # None /\ x[1] # 0

\* the last lines of intermediate_code, shared by both branches
intermediate_code_tail(magic, owner_entropy, pass_factor) ==
  Pick({
    IF ~pass_point.ok THEN Err(pass_point.err)
    ELSE Ok(check_encode[magic \o owner_entropy \o get_bytes[pass_point.val]])
    : pass_point \in {private_key_to_public_key(pass_factor, "compressed")}})

intermediate_code(passphrase, lot, sequence, owner_salt) ==
  IF Len(owner_salt) \notin {SaltLen, EntropyLen}
  THEN Err("Invalid owner salt length")
  ELSE IF Len(owner_salt) = SaltLen /\ (~Truthy(lot) \/ ~Truthy(sequence))
  THEN Err("Invalid owner salt length for non lot/sequence")
  ELSE IF (Truthy(lot) /\ ~Truthy(sequence)) \/ (~Truthy(lot) /\ Truthy(sequence))
  THEN Err("Both lot & sequence are required")
  ELSE IF Truthy(lot) /\ Truthy(sequence)
  THEN
    IF ~(LotMin <= lot[1] /\ lot[1] <= LotMax) THEN Err("Invalid lot")
    ELSE IF ~(0 <= sequence[1] /\ sequence[1] <= SequenceMax)
    THEN Err("Invalid lot, sequence out of range")
    ELSE
    Pick({
    Pick({
    Pick({
      intermediate_code_tail(MAGIC_LOT_AND_SEQUENCE, owner_entropy, pass_factor)
      : pass_factor \in {double_sha256[pre_factor \o owner_entropy]}})
      : owner_entropy \in {Slice(owner_salt, 0, SaltLen)
                           \o lot_and_sequence_field(lot[1], sequence[1])}})
      : pre_factor \in {scrypt_hash[NFC[passphrase], Slice(owner_salt, 0, SaltLen), 16384, 8, 8, KeyLen]}})
  ELSE
    Pick({
      intermediate_code_tail(MAGIC_NO_LOT_AND_SEQUENCE, owner_salt, pass_factor)
      : pass_factor \in {scrypt_hash[NFC[passphrase], owner_salt, 16384, 8, 8, KeyLen]}})

\* the lines of create_new_encrypted_wif that build the confirmation code and
\* the returned dict
create_new_confirmation(flag, address, address_hash, owner_entropy, public_key, seed_b, public_key_type, factor_b, scrypt_out, encrypted_wif) ==
  Pick({
  Pick({
  Pick({
  Pick({
    IF ~point_b_hex.ok THEN Err(point_b_hex.err)
    ELSE
    Pick({
    Pick({
    Pick({
      IF ~point_b_half_1.ok THEN Err(point_b_half_1.err)
      ELSE
      Pick({
        IF ~point_b_half_2.ok THEN Err(point_b_half_2.err)
        ELSE
        Pick({
        Pick({
          Ok([encrypted_wif |-> encrypted_wif,
              confirmation_code |-> confirmation_code,
              public_key |-> bytes_to_string[public_key],
              seed |-> bytes_to_string[seed_b],
              public_key_type |-> public_key_type,
              address |-> address])
          : confirmation_code \in {check_encode[CONFIRMATION_CODE_PREFIX \o flag \o address_hash
                                   \o owner_entropy \o encrypted_point_b]}})
          : encrypted_point_b \in {point_b_prefix \o point_b_half_1.val \o point_b_half_2.val}})
        : point_b_half_2 \in {encrypt_xor(key, SliceFrom(point_b, 1 + BlockLen), derived_half_2)}})
      : point_b_half_1 \in {encrypt_xor(key, Slice(point_b, 1, 1 + BlockLen), derived_half_1)}})
      : point_b_prefix \in {integer_to_bytes[
                            xor[bytes_to_integer[SliceFrom(scrypt_out, ScryptLen - 1)] % 2,
                            bytes_to_integer[Slice(point_b, 0, 1)]]]}})
      : point_b \in {get_bytes[point_b_hex.val]}})
    : point_b_hex \in {private_key_to_public_key(factor_b, "compressed")}})
    : key \in {SliceFrom(scrypt_out, 2 * BlockLen)}})
    : derived_half_2 \in {Slice(scrypt_out, BlockLen, 2 * BlockLen)}})
    : derived_half_1 \in {Slice(scrypt_out, 0, BlockLen)}})

\* the lines of create_new_encrypted_wif after the flag is chosen
create_new_body(flag, owner_entropy, pass_point, public_key_type, seed_b, network) ==
  Pick({
    IF ~(0 < bytes_to_integer[factor_b] /\ bytes_to_integer[factor_b] < N)
    THEN Err("Invalid EC encrypted WIF")
    ELSE
    Pick({
      IF ~public_key.ok THEN Err(public_key.err)
      ELSE
      Pick({
        IF ~address.ok THEN Err(address.err)
        ELSE
        Pick({
        Pick({
        Pick({
        Pick({
        Pick({
          IF ~encrypted_half_1.ok THEN Err(encrypted_half_1.err)
          ELSE
          Pick({
            IF ~encrypted_half_2.ok THEN Err(encrypted_half_2.err)
            ELSE
            Pick({
              create_new_confirmation(flag, address.val, address_hash, owner_entropy,
                                      public_key.val, seed_b, public_key_type,
                                      factor_b, scrypt_out, encrypted_wif)
              : encrypted_wif \in {check_encode[BIP38_EC_MULTIPLIED_PRIVATE_KEY_PREFIX \o flag
                                   \o address_hash \o owner_entropy
                                   \o Slice(encrypted_half_1.val, 0, BlockLen \div 2)
                                   \o encrypted_half_2.val]}})
            : encrypted_half_2 \in {encrypt_xor(key,
                                    SliceFrom(encrypted_half_1.val, BlockLen \div 2)
                                    \o SliceFrom(seed_b, BlockLen),
                                    Slice(scrypt_out, BlockLen, 2 * BlockLen))}})
          : encrypted_half_1 \in {encrypt_xor(key, Slice(seed_b, 0, BlockLen),
                                  Slice(scrypt_out, 0, BlockLen))}})
          : key \in {SliceFrom(scrypt_out, 2 * BlockLen)}})
          : scrypt_out \in {scrypt_hash[pass_point, salt, 1024, 1, 1, ScryptLen]}})
          : salt \in {address_hash \o owner_entropy}})
          : address_hash \in {get_checksum(address.val)}})
        : address \in {public_key_to_addresses(public_key.val, network)}})
      : public_key \in {multiply_public_key(pass_point, factor_b, public_key_type)}})
    : factor_b \in {double_sha256[seed_b]}})

\* create_new_encrypted_wif with the flags of the two public key types
\* exchanged
create_new_encrypted_wif_swapped(intermediate_passphrase, public_key_type, seed, network) ==
  Pick({
  Pick({
    IF ~checked.ok THEN Err(checked.err)
    ELSE
    Pick({
      IF Len(intermediate_decode) # IntermediateLen
      THEN Err("Invalid intermediate passphrase length")
      ELSE
      Pick({
      Pick({
      Pick({
        IF magic = MAGIC_LOT_AND_SEQUENCE
        THEN
          IF public_key_type = "uncompressed"
          THEN create_new_body(octet(MAGIC_LOT_AND_SEQUENCE_COMPRESSED_FLAG),
                               owner_entropy, pass_point, public_key_type, seed_b, network)
          ELSE IF public_key_type = "compressed"
          THEN create_new_body(octet(MAGIC_LOT_AND_SEQUENCE_UNCOMPRESSED_FLAG),
                               owner_entropy, pass_point, public_key_type, seed_b, network)
          ELSE Err("Invalid public key type")
        ELSE IF magic = MAGIC_NO_LOT_AND_SEQUENCE
        THEN
          IF public_key_type = "uncompressed"
          THEN create_new_body(octet(MAGIC_NO_LOT_AND_SEQUENCE_COMPRESSED_FLAG),
                               owner_entropy, pass_point, public_key_type, seed_b, network)
          ELSE IF public_key_type = "compressed"
          THEN create_new_body(octet(MAGIC_NO_LOT_AND_SEQUENCE_UNCOMPRESSED_FLAG),
                               owner_entropy, pass_point, public_key_type, seed_b, network)
          ELSE Err("Invalid public key type")
        ELSE Err("Invalid magic")
        : pass_point \in {SliceFrom(intermediate_decode, 8 + EntropyLen)}})
        : owner_entropy \in {Slice(intermediate_decode, 8, 8 + EntropyLen)}})
        : magic \in {Slice(intermediate_decode, 0, 8)}})
      : intermediate_decode \in {checked.val}})
    : checked \in {check_decode[intermediate_passphrase]}})
    : seed_b \in {get_bytes[bytes_to_string[seed]]}})

create_new_encrypted_wif(intermediate_passphrase, public_key_type, seed, network) ==
  Pick({
  Pick({
    IF ~checked.ok THEN Err(checked.err)
    ELSE
    Pick({
      IF Len(intermediate_decode) # IntermediateLen
      THEN Err("Invalid intermediate passphrase length")
      ELSE
      Pick({
      Pick({
      Pick({
        IF magic = MAGIC_LOT_AND_SEQUENCE
        THEN
          IF public_key_type = "uncompressed"
          THEN create_new_body(octet(MAGIC_LOT_AND_SEQUENCE_UNCOMPRESSED_FLAG),
                               owner_entropy, pass_point, public_key_type, seed_b, network)
          ELSE IF public_key_type = "compressed"
          THEN create_new_body(octet(MAGIC_LOT_AND_SEQUENCE_COMPRESSED_FLAG),
                               owner_entropy, pass_point, public_key_type, seed_b, network)
          ELSE Err("Invalid public key type")
        ELSE IF magic = MAGIC_NO_LOT_AND_SEQUENCE
        THEN
          IF public_key_type = "uncompressed"
          THEN create_new_body(octet(MAGIC_NO_LOT_AND_SEQUENCE_UNCOMPRESSED_FLAG),
                               owner_entropy, pass_point, public_key_type, seed_b, network)
          ELSE IF public_key_type = "compressed"
          THEN create_new_body(octet(MAGIC_NO_LOT_AND_SEQUENCE_COMPRESSED_FLAG),
                               owner_entropy, pass_point, public_key_type, seed_b, network)
          ELSE Err("Invalid public key type")
        ELSE Err("Invalid magic")
        : pass_point \in {SliceFrom(intermediate_decode, 8 + EntropyLen)}})
        : owner_entropy \in {Slice(intermediate_decode, 8, 8 + EntropyLen)}})
        : magic \in {Slice(intermediate_decode, 0, 8)}})
      : intermediate_decode \in {checked.val}})
    : checked \in {check_decode[intermediate_passphrase]}})
    : seed_b \in {get_bytes[bytes_to_string[seed]]}})

\* the lines of confirm_code after point_b is computed
confirm_code_tail(flag, address_hash, lot_and_sequence, point_b, pass_factor, network, detail) ==
  Pick({
    IF ~uncompressed_key.ok THEN Traced(Err(uncompressed_key.err), 2)
    ELSE
    Pick({
    Pick({
    Pick({
    Pick({
      IF ~address.ok THEN Traced(Err(address.err), 2)
      ELSE IF get_checksum(address.val) = address_hash
      THEN
        IF detail
        THEN
          Pick({
          Pick({
            Traced(Ok([public_key |-> bytes_to_string[public_key],
                       public_key_type |-> public_key_type,
                       address |-> address.val,
                       lot |-> IF Len(lot_and_sequence) > 0 THEN Some(lot) ELSE None,
                       sequence |-> IF Len(lot_and_sequence) > 0
                                    THEN Some(sequence) ELSE None]), 2)
            : lot \in {decoded_lot(lot_and_sequence, sequence)}})
            : sequence \in {decoded_sequence(lot_and_sequence)}})
        ELSE Traced(Ok(address.val), 2)
      ELSE Traced(Err("Incorrect passphrase or password"), 2)
      : address \in {public_key_to_addresses(public_key, network)}})
      : public_key_type \in {IF compression THEN "compressed" ELSE "uncompressed"}})
      : public_key \in {IF compression
                        THEN get_bytes[compress_public_key(uncompressed_key.val)]
                        ELSE uncompressed_key.val}})
      : compression \in {bytes_to_integer[flag] \in FLAGS.compression}})
    : uncompressed_key \in {multiply_public_key(point_b, pass_factor, "uncompressed")}})

\* the lines of confirm_code after pass_factor is computed
confirm_code_body(flag, address_hash, owner_entropy, encrypted_point_b, lot_and_sequence, pass_factor, network, detail) ==
  IF bytes_to_integer[pass_factor] = 0 \/ bytes_to_integer[pass_factor] >= N
  THEN Traced(Err("Invalid EC encrypted WIF"), 1)
  ELSE
  Pick({
    IF ~pass_point.ok THEN Traced(Err(pass_point.err), 1)
    ELSE
    Pick({
    Pick({
    Pick({
    Pick({
    Pick({
    Pick({
      IF ~d1.ok THEN Traced(Err(d1.err), 2)
      ELSE
      Pick({
      Pick({
        IF ~d2.ok THEN Traced(Err(d2.err), 2)
        ELSE
        Pick({
        Pick({
        Pick({
          confirm_code_tail(flag, address_hash, lot_and_sequence, point_b,
                            pass_factor, network, detail)
          : point_b \in {point_b_prefix \o point_b_half_1 \o point_b_half_2}})
          : point_b_prefix \in {integer_to_bytes[
                                xor[bytes_to_integer[Slice(encrypted_point_b, 0, 1)],
                                bytes_to_integer[SliceFrom(scrypt_out, ScryptLen - 1)] % 2]]}})
          : point_b_half_2 \in {xor_bytes(d2.val, Slice(scrypt_out, BlockLen, 2 * BlockLen))}})
        : d2 \in {aes_decrypt[key, derived_half_2]}})
        : point_b_half_1 \in {xor_bytes(d1.val, Slice(scrypt_out, 0, BlockLen))}})
      : d1 \in {aes_decrypt[key, derived_half_1]}})
      : key \in {SliceFrom(scrypt_out, 2 * BlockLen)}})
      : derived_half_2 \in {SliceFrom(encrypted_point_b, 1 + BlockLen)}})
      : derived_half_1 \in {Slice(encrypted_point_b, 1, 1 + BlockLen)}})
      : scrypt_out \in {scrypt_hash[get_bytes[pass_point.val], salt, 1024, 1, 1, ScryptLen]}})
      : salt \in {address_hash \o owner_entropy}})
    : pass_point \in {private_key_to_public_key(pass_factor, "compressed")}})

confirm_code(passphrase, confirmation_code, network, detail) ==
  Pick({
    IF ~checked.ok THEN Traced(Err(checked.err), 0)
    ELSE
    Pick({
      IF Len(confirmation_code_decode) # ConfirmationLen
      THEN Traced(Err("Invalid confirmation code length"), 0)
      ELSE
      Pick({
      Pick({
        IF CONFIRMATION_CODE_PREFIX # prefix_got
        THEN Traced(Err("Invalid confirmation code prefix"), 0)
        ELSE
        Pick({
        Pick({
        Pick({
        Pick({
        Pick({
        Pick({
        Pick({
        Pick({
        Pick({
          confirm_code_body(flag, address_hash, owner_entropy, encrypted_point_b,
                            lot_and_sequence, pass_factor, network, detail)
          : pass_factor \in {IF Len(lot_and_sequence) > 0
                             THEN double_sha256[pre_factor \o owner_entropy]
                             ELSE pre_factor}})
          : pre_factor \in {scrypt_hash[NFC[passphrase], owner_salt, 16384, 8, 8, KeyLen]}})
          : lot_and_sequence \in {IF has_lot THEN SliceFrom(owner_entropy, SaltLen) ELSE None}})
          : owner_salt \in {IF has_lot THEN Slice(owner_entropy, 0, SaltLen) ELSE owner_entropy}})
          : has_lot \in {bytes_to_integer[flag] \in FLAGS.lot_and_sequence}})
          : encrypted_point_b \in {SliceFrom(confirmation_code_decode, 6 + CHECKSUM_BYTE_LENGTH + EntropyLen)}})
          : owner_entropy \in {Slice(confirmation_code_decode, 6 + CHECKSUM_BYTE_LENGTH,
                               6 + CHECKSUM_BYTE_LENGTH + EntropyLen)}})
          : address_hash \in {Slice(confirmation_code_decode, 6, 6 + CHECKSUM_BYTE_LENGTH)}})
          : flag \in {Slice(confirmation_code_decode, 5, 6)}})
        : prefix_got \in {Slice(confirmation_code_decode, 0, prefix_length)}})
        : prefix_length \in {Len(CONFIRMATION_CODE_PREFIX)}})
      : confirmation_code_decode \in {checked.val}})
    : checked \in {check_decode[confirmation_code]}})

(***************************************************************************)
(* Callers.  The library is a set of pure functions; the state of the      *)
(* model is what a caller holds: the arguments it passed and the value or  *)
(* the error each call gave back.  A behaviour is one scenario: a WIF is   *)
(* made, then decoded or encrypted and the token decrypted; or an          *)
(* intermediate code is made, an encrypted WIF minted from it and then     *)
(* decrypted or confirmed; or a public key is converted back and forth.    *)
(***************************************************************************)
\* private keys a caller holds, as scalars
NumKeys == 4
KeyPool == <<40000, 4660, 9, 1, 64920>>
PrivateKeys == {to_bytes[KeyPool[i], KeyLen] : i \in 1..NumKeys}

\* passphrases: "qtum123", "e" + U+0301, U+00E9, "qtum124"
NumPassphrases == 3
PassphrasePool ==
  << <<113, 116, 117, 109, 49, 50, 51>>, <<101, 769>>, <<233>>,
     <<113, 116, 117, 109, 49, 50, 52>> >>
Passphrases == {PassphrasePool[i] : i \in 1..NumPassphrases}

\* seeds of SeedLen bytes
NumSeeds == 5
SeedPool == <<1, 1234, 2925, 1100, 1900, 2222>>
Seeds == {to_bytes[SeedPool[i], SeedLen] : i \in 1..NumSeeds}

\* owner salts: one of EntropyLen bytes, one of SaltLen bytes, one of neither
\* length
OwnerSalts == {<<1, 2>>, <<3>>, <<1, 2, 3>>}
Lots == {None} \cup {Some(l) : l \in 0..LotMax + 1}
Sequences == {None} \cup {Some(s) : s \in 0..SequenceMax + 1}
WifTypes == {"wif", "wif-compressed"}
PublicKeyTypes == {"uncompressed", "compressed"}

\* the SEC encodings of the public key of d, as any secp256k1 library gives
\* them: every coordinate on KeyLen bytes
SecUncompressed(private_key) ==
  Pick({
    octet(UNCOMPRESSED_PUBLIC_KEY_PREFIX)
      \o to_bytes[q[1], KeyLen] \o to_bytes[q[2], KeyLen]
    : q \in {ecc_multiply[G_POINT, bytes_to_integer[private_key]].val}})

SecCompressed(private_key) ==
  Pick({
    octet(IF q[2] % 2 = 1 THEN ODD_COMPRESSED_PUBLIC_KEY_PREFIX
          ELSE EVEN_COMPRESSED_PUBLIC_KEY_PREFIX)
      \o to_bytes[q[1], KeyLen]
    : q \in {ecc_multiply[G_POINT, bytes_to_integer[private_key]].val}})

\* what can happen to a Base58 string between two calls
NoDamage == [kind |-> "none", flag |-> 0]
ChecksumDamage == [kind |-> "checksum", flag |-> 0]
FlagDamage(f) == [kind |-> "flag", flag |-> f]
MagicDamage == [kind |-> "magic", flag |-> 0]
\* a WIF re-encoded with another suffix byte, with an inner payload one byte
\* too long or too short, or under an unknown version byte
SuffixDamage == [kind |-> "suffix", flag |-> 0]
LongDamage == [kind |-> "long", flag |-> 0]
ShortDamage == [kind |-> "short", flag |-> 0]
VersionDamage == [kind |-> "version", flag |-> 0]
WifDamages == {SuffixDamage, LongDamage, ShortDamage, VersionDamage}
\* an encrypted WIF re-encoded under prefix 0x0144, or with a payload one byte
\* shorter or longer
PrefixDamage == [kind |-> "prefix", flag |-> 0]
TruncatedDamage == [kind |-> "truncated", flag |-> 0]
ExtendedDamage == [kind |-> "extended", flag |-> 0]
TokenDamages == {PrefixDamage, TruncatedDamage, ExtendedDamage}

\* an encrypted WIF whose two encrypted halves are replaced by the ciphertext
\* of a chosen scalar under the passphrase it was made with
ScalarDamage(d) == [kind |-> "scalar", flag |-> d]
ScalarDamages == {ScalarDamage(d) : d \in {0, N, ByteBase ^ KeyLen - 1}}

\* the encrypted WIF with the header of text whose halves hold the scalar
Forged(text, passphrase, scalar) ==
  Pick({
  Pick({
  Pick({
    check_encode[Slice(payload, 0, HeaderLen)
                   \o aes_encrypt[Slice(key, 2 * BlockLen, 4 * BlockLen),
                                  Slice(plain, 0, BlockLen)].val
                   \o aes_encrypt[Slice(key, 2 * BlockLen, 4 * BlockLen),
                                  Slice(plain, BlockLen, 2 * BlockLen)].val]
    : plain \in {to_bytes[xor[scalar, bytes_to_integer[Slice(key, 0, 2 * BlockLen)]], KeyLen]}})
    : key \in {scrypt_hash[NFC[passphrase], Slice(payload, 3, HeaderLen), 16384, 8, 8, ScryptLen]}})
    : payload \in {SliceDropLast(decode[text], CHECKSUM_BYTE_LENGTH)}})

\* the trailing 4 bytes are the checksum of what precedes them
ChecksumIntact(text) ==
  Pick({
    /\ Len(raw) > CHECKSUM_BYTE_LENGTH
    /\ SliceLast(raw, CHECKSUM_BYTE_LENGTH)
         = base58_checksum[SliceDropLast(raw, CHECKSUM_BYTE_LENGTH)]
    : raw \in {decode[text]}})

Damaged(text, damage) ==
  Pick({
  Pick({
    IF damage.kind = "checksum"
    THEN encode[SliceDropLast(raw, 1) \o <<(raw[Len(raw)] + 1) % 256>>]
    ELSE IF damage.kind = "flag"
    THEN check_encode[Slice(payload, 0, 2) \o <<damage.flag>> \o SliceFrom(payload, 3)]
    ELSE IF damage.kind = "suffix"
    THEN check_encode[Slice(payload, 0, 1 + KeyLen) \o <<2>>]
    ELSE IF damage.kind = "long"
    THEN check_encode[Slice(payload, 0, 1 + KeyLen) \o <<1, 1>>]
    ELSE IF damage.kind = "short"
    THEN check_encode[Slice(payload, 0, KeyLen)]
    ELSE IF damage.kind = "version"
    THEN check_encode[<<0>> \o SliceFrom(payload, 1)]
    ELSE IF damage.kind = "prefix"
    THEN check_encode[<<1, 68>> \o SliceFrom(payload, 2)]
    ELSE IF damage.kind = "truncated"
    THEN check_encode[SliceDropLast(payload, 1)]
    ELSE IF damage.kind = "extended"
    THEN check_encode[payload \o <<0>>]
    ELSE IF damage.kind = "magic"
    THEN check_encode[SliceDropLast(Slice(payload, 0, 8), 1) \o <<82>>
                        \o SliceFrom(payload, 8)]
    ELSE text
    : payload \in {SliceDropLast(raw, CHECKSUM_BYTE_LENGTH)}})
    : raw \in {decode[text]}})

\* The entry points as the callers below reach them: each is the function of
\* its arguments that the operator of the same name computes.
Octets == Seq(Nat)
Damages == [kind : STRING, flag : Nat]

private_key_to_wif_of[private_key \in Octets, wif_type \in STRING, network \in STRING] ==
  private_key_to_wif(private_key, wif_type, network)

decode_wif_of[wif \in Octets] ==
  [intact |-> ChecksumIntact(wif),
   private_key |-> wif_to_private_key(wif),
   wif_type |-> get_wif_type(wif),
   checksum |-> get_wif_checksum(wif),
   network |-> get_wif_network(wif)]

bip38_encrypt_of[wif \in Octets, passphrase \in Octets, network \in STRING] ==
  bip38_encrypt(wif, passphrase, network)

bip38_decrypt_of[encrypted_wif \in Octets, passphrase \in Octets, network \in STRING, detail \in BOOLEAN] ==
  bip38_decrypt(encrypted_wif, passphrase, network, detail)

intermediate_code_of[passphrase \in Octets, lot \in Octets, sequence \in Octets, owner_salt \in Octets] ==
  intermediate_code(passphrase, lot, sequence, owner_salt)

create_new_encrypted_wif_of[intermediate_passphrase \in Octets, public_key_type \in STRING, seed \in Octets, network \in STRING] ==
  create_new_encrypted_wif(intermediate_passphrase, public_key_type, seed, network)

confirm_code_of[passphrase \in Octets, confirmation_code \in Octets, network \in STRING, detail \in BOOLEAN] ==
  confirm_code(passphrase, confirmation_code, network, detail)

uncompress_public_key_of[public_key \in Octets] == uncompress_public_key(public_key)

compress_public_key_of[public_key \in Octets] == compress_public_key(public_key)

Sec[private_key \in Octets, form \in STRING] ==
  IF form = "compressed" THEN SecCompressed(private_key)
  ELSE SecUncompressed(private_key)

damaged_of[text \in Octets, damage \in Damages] == Damaged(text, damage)

forged_of[text \in Octets, passphrase \in Octets, scalar \in Nat] == Forged(text, passphrase, scalar)

checksum_intact_of[text \in Octets] == ChecksumIntact(text)

\* the points ecc_multiply is called on: the generator and three of its
\* multiples, and the scalars: the smallest, those around N and N / 2, and
\* some in between
GenPoints == {G_POINT, <<18648, 60483>>, <<60291, 10073>>, <<61894, 22622>>}
Scalars ==
  (0..9) \cup ((N - 3)..(N + 3)) \cup (((N - 1) \div 2 - 1)..((N - 1) \div 2 + 2))
    \cup {4660, 21845, 32767, 32768, 40000, 43690, 65535}

VARIABLES wifR, parseR, encR, icR, newR, decR, confR, pkR, mulR, dflR

vars == <<wifR, parseR, encR, icR, newR, decR, confR, pkR, mulR, dflR>>

Unset == [set |-> FALSE]

\* The defaults of owner_salt and seed, os.urandom(8) and os.urandom(24), are
\* evaluated when the def statements run, at the load of the module; dflR
\* keeps them with the first and a later call of each function that omits the
\* argument.
DefaultSalts == {<<1, 2>>, <<2, 3>>}
DefaultSeeds == {to_bytes[SeedPool[1], SeedLen], to_bytes[SeedPool[2], SeedLen]}

Loaded(owner_salt, seed) ==
  [owner_salt |-> owner_salt, seed |-> seed,
   ic_first |-> Unset, ic_again |-> Unset,
   new_first |-> Unset, new_again |-> Unset]

\* the salt and the seed of a call that omits them, were os.urandom run at
\* the call
owner_salt_default_per_call(loaded, fresh) == fresh

\* owner_salt = os.urandom(8) and seed = os.urandom(24) in the parameter
\* lists: the value got at the load, whatever os.urandom would give now
owner_salt_default(loaded, fresh) == loaded
seed_default(loaded, fresh) == loaded

Init ==
  /\ wifR = Unset
  /\ parseR = Unset
  /\ encR = Unset
  /\ icR = Unset
  /\ newR = Unset
  /\ decR = Unset
  /\ confR = Unset
  /\ pkR = Unset
  /\ mulR = Unset
  /\ dflR = Loaded(<<1, 2>>, to_bytes[SeedPool[1], SeedLen])

Idle == ~wifR.set /\ ~icR.set /\ ~pkR.set /\ ~mulR.set

\* private_key_to_wif(private_key, wif_type, network)
PrivateKeyToWif ==
  /\ Idle
  /\ \E private_key \in PrivateKeys, wif_type \in WifTypes, network \in Networks :
       wifR' = [set |-> TRUE, private_key |-> private_key, wif_type |-> wif_type,
                network |-> network,
                wif |-> private_key_to_wif_of[private_key, wif_type, network]]
  /\ UNCHANGED <<parseR, encR, icR, newR, decR, confR, pkR, mulR, dflR>>

\* wif_to_private_key, get_wif_type, get_wif_checksum, get_wif_network on the
\* WIF, as made, with its checksum damaged, or re-encoded malformed
DecodeWif ==
  /\ wifR.set /\ wifR.wif.ok /\ ~parseR.set /\ ~encR.set
  /\ \E damage \in {NoDamage, ChecksumDamage} \cup WifDamages :
       \E wif \in {damaged_of[wifR.wif.val, damage]} :
         parseR' = [set |-> TRUE, wif |-> wif, damage |-> damage,
                    intact |-> decode_wif_of[wif].intact,
                    private_key |-> decode_wif_of[wif].private_key,
                    wif_type |-> decode_wif_of[wif].wif_type,
                    checksum |-> decode_wif_of[wif].checksum,
                    network |-> decode_wif_of[wif].network]
  /\ UNCHANGED <<wifR, encR, icR, newR, decR, confR, pkR, mulR, dflR>>

\* bip38_encrypt(wif, passphrase, network)
Bip38Encrypt ==
  /\ wifR.set /\ wifR.wif.ok /\ ~parseR.set /\ ~encR.set
  /\ \E passphrase \in Passphrases, network \in Networks,
        damage \in {NoDamage, ChecksumDamage} :
       \E wif \in {damaged_of[wifR.wif.val, damage]} :
         encR' = [set |-> TRUE, wif |-> wif, damage |-> damage,
                  intact |-> checksum_intact_of[wif],
                  passphrase |-> passphrase, network |-> network,
                  encrypted_wif |-> bip38_encrypt_of[wif, passphrase, network]]
  /\ UNCHANGED <<wifR, parseR, icR, newR, decR, confR, pkR, mulR, dflR>>

\* intermediate_code(passphrase, lot, sequence, owner_salt)
IntermediateCode ==
  /\ Idle
  /\ \E passphrase \in Passphrases, lot \in Lots, sequence \in Sequences,
        owner_salt \in OwnerSalts :
       icR' = [set |-> TRUE, passphrase |-> passphrase, lot |-> lot,
               sequence |-> sequence, owner_salt |-> owner_salt,
               code |-> intermediate_code_of[passphrase, lot, sequence, owner_salt]]
  /\ UNCHANGED <<wifR, parseR, encR, newR, decR, confR, pkR, mulR, dflR>>

\* create_new_encrypted_wif(intermediate_passphrase, public_key_type, seed, network)
CreateNewEncryptedWif ==
  /\ icR.set /\ icR.code.ok /\ ~newR.set
  /\ \E public_key_type \in PublicKeyTypes \cup {"hybrid"}, seed \in Seeds,
        network \in Networks, damage \in {NoDamage, MagicDamage} :
       \E intermediate_passphrase \in {damaged_of[icR.code.val, damage]} :
         newR' = [set |-> TRUE, intermediate_passphrase |-> intermediate_passphrase,
                  damage |-> damage, public_key_type |-> public_key_type,
                  seed |-> seed, network |-> network,
                  created |-> create_new_encrypted_wif_of[
                                intermediate_passphrase, public_key_type, seed, network]]
  /\ UNCHANGED <<wifR, parseR, encR, icR, decR, confR, pkR, mulR, dflR>>

\* bip38_decrypt(encrypted_wif, passphrase, network, detail) on a token made
\* under made_with for made_for: as made, with its checksum damaged,
\* re-encoded under an illegal flag, another prefix or another length, or
\* with halves that hold a chosen scalar
DecryptToken(token, made_with, made_for) ==
  \E passphrase \in Passphrases, detail \in BOOLEAN,
     damage \in {NoDamage, ChecksumDamage} \cup {FlagDamage(f) : f \in FLAGS.illegal}
                  \cup TokenDamages \cup ScalarDamages :
    /\ damage = NoDamage \/ (detail /\ passphrase = made_with)
    /\ \E encrypted_wif \in {IF damage \in ScalarDamages
                             THEN forged_of[token, made_with, damage.flag]
                             ELSE damaged_of[token, damage]} :
         decR' = [set |-> TRUE, encrypted_wif |-> encrypted_wif,
                  damage |-> damage, intact |-> checksum_intact_of[encrypted_wif],
                  made_with |-> made_with, passphrase |-> passphrase,
                  network |-> made_for, detail |-> detail,
                  out |-> bip38_decrypt_of[encrypted_wif, passphrase, made_for, detail]]

\* bip38_decrypt on the token bip38_encrypt or create_new_encrypted_wif made
Bip38Decrypt ==
  /\ ~decR.set /\ ~confR.set
  /\ \/ /\ encR.set /\ encR.encrypted_wif.ok
        /\ DecryptToken(encR.encrypted_wif.val, encR.passphrase, encR.network)
     \/ /\ newR.set /\ newR.created.ok
        /\ DecryptToken(newR.created.val.encrypted_wif, icR.passphrase, newR.network)
  /\ UNCHANGED <<wifR, parseR, encR, icR, newR, confR, pkR, mulR, dflR>>

\* confirm_code(passphrase, confirmation_code, network, detail)
ConfirmCode ==
  /\ newR.set /\ newR.created.ok /\ ~confR.set /\ ~decR.set
  /\ \E passphrase \in Passphrases, detail \in BOOLEAN :
       confR' = [set |-> TRUE, passphrase |-> passphrase, detail |-> detail,
                 out |-> confirm_code_of[passphrase, newR.created.val.confirmation_code,
                                         newR.network, detail]]
  /\ UNCHANGED <<wifR, parseR, encR, icR, newR, decR, pkR, mulR, dflR>>

\* a caller obtains the public key of one of its private keys, in one form
PublicKey ==
  /\ Idle
  /\ \E private_key \in PrivateKeys, form \in PublicKeyTypes :
       pkR' = [set |-> TRUE, form |-> form, stage |-> 0,
               key |-> Sec[private_key, form],
               first |-> <<>>, second |-> <<>>]
  /\ UNCHANGED <<wifR, parseR, encR, icR, newR, decR, confR, mulR, dflR>>

\* uncompress_public_key on the compressed key at hand
UncompressPublicKey ==
  /\ pkR.set
  /\ \/ /\ pkR.stage = 0 /\ pkR.form = "compressed"
        /\ pkR' = [pkR EXCEPT !.stage = 1, !.first = uncompress_public_key_of[pkR.key]]
     \/ /\ pkR.stage = 1 /\ pkR.form = "uncompressed"
        /\ pkR' = [pkR EXCEPT !.stage = 2,
                              !.second = uncompress_public_key_of[get_bytes[pkR.first]]]
  /\ UNCHANGED <<wifR, parseR, encR, icR, newR, decR, confR, mulR, dflR>>

\* compress_public_key on the uncompressed key at hand
CompressPublicKey ==
  /\ pkR.set
  /\ \/ /\ pkR.stage = 0 /\ pkR.form = "uncompressed"
        /\ pkR' = [pkR EXCEPT !.stage = 1, !.first = compress_public_key_of[pkR.key]]
     \/ /\ pkR.stage = 1 /\ pkR.form = "compressed"
        /\ pkR' = [pkR EXCEPT !.stage = 2,
                              !.second = compress_public_key_of[get_bytes[pkR.first]]]
  /\ UNCHANGED <<wifR, parseR, encR, icR, newR, decR, confR, mulR, dflR>>

\* ecc_multiply(gen_point, scalar_hex) on a point of the curve and a scalar,
\* with the operands of the ec_add calls it makes
EccMultiply ==
  /\ Idle
  /\ \E gen_point \in GenPoints, scalar_hex \in Scalars :
       mulR' = [set |-> TRUE, gen_point |-> gen_point, scalar_hex |-> scalar_hex,
                out |-> ecc_multiply[gen_point, scalar_hex],
                adds |-> ecc_multiply_calls[gen_point, scalar_hex]]
  /\ UNCHANGED <<wifR, parseR, encR, icR, newR, decR, confR, pkR, dflR>>

Next ==
  \/ EccMultiply
  \/ PrivateKeyToWif
  \/ DecodeWif
  \/ Bip38Encrypt
  \/ Bip38Decrypt
  \/ IntermediateCode
  \/ CreateNewEncryptedWif
  \/ ConfirmCode
  \/ PublicKey
  \/ UncompressPublicKey
  \/ CompressPublicKey

Spec == Init /\ [][Next]_vars

\* The callers of Spec pass every argument, so one load stands for all
\* there; the callers below omit owner_salt and seed.
InitDefaults ==
  /\ wifR = Unset /\ parseR = Unset /\ encR = Unset /\ icR = Unset
  /\ newR = Unset /\ decR = Unset /\ confR = Unset /\ pkR = Unset
  /\ mulR = Unset
  /\ \E owner_salt \in DefaultSalts, seed \in DefaultSeeds : dflR = Loaded(owner_salt, seed)

\* intermediate_code(passphrase, lot, sequence) without owner_salt: the first
\* such call of the process, then a later one
IntermediateCodeDefault ==
  /\ ~dflR.ic_again.set
  /\ \E passphrase \in {PassphrasePool[1], PassphrasePool[2]},
        lot_sequence \in {<<None, None>>, <<Some(LotMax), Some(SequenceMax)>>},
        fresh \in DefaultSalts :
       dflR' = [dflR EXCEPT ![IF dflR.ic_first.set THEN "ic_again" ELSE "ic_first"] =
                  [set |-> TRUE, passphrase |-> passphrase,
                   lot |-> lot_sequence[1], sequence |-> lot_sequence[2],
                   owner_salt |-> owner_salt_default(dflR.owner_salt, fresh),
                   code |-> intermediate_code_of[
                              passphrase, lot_sequence[1], lot_sequence[2],
                              owner_salt_default(dflR.owner_salt, fresh)]]]
  /\ UNCHANGED <<wifR, parseR, encR, icR, newR, decR, confR, pkR, mulR>>

\* create_new_encrypted_wif(intermediate_passphrase, public_key_type,
\* network=network) without seed, on the code of the first call above
CreateNewEncryptedWifDefault ==
  /\ dflR.ic_first.set /\ dflR.ic_first.code.ok /\ ~dflR.new_again.set
  /\ \E public_key_type \in PublicKeyTypes, network \in Networks, fresh \in DefaultSeeds :
       dflR' = [dflR EXCEPT ![IF dflR.new_first.set THEN "new_again" ELSE "new_first"] =
                  [set |-> TRUE,
                   intermediate_passphrase |-> dflR.ic_first.code.val,
                   public_key_type |-> public_key_type, network |-> network,
                   seed |-> seed_default(dflR.seed, fresh),
                   created |-> create_new_encrypted_wif_of[
                                 dflR.ic_first.code.val, public_key_type,
                                 seed_default(dflR.seed, fresh), network]]]
  /\ UNCHANGED <<wifR, parseR, encR, icR, newR, decR, confR, pkR, mulR>>

NextDefaults ==
  \/ IntermediateCodeDefault
  \/ CreateNewEncryptedWifDefault

SpecDefaults == InitDefaults /\ [][NextDefaults]_vars

(***************************************************************************)
(* Properties                                                              *)
(***************************************************************************)
\* the decryption at hand is of the token bip38_encrypt made from an intact
\* WIF, unaltered, under the passphrase it was made with
SameKeyDecryption ==
  /\ encR.set /\ encR.damage = NoDamage
  /\ decR.set /\ decR.damage = NoDamage /\ decR.passphrase = encR.passphrase

\* C1: bip38_encrypt of a valid WIF succeeds, and bip38_decrypt of its result
\* under the same passphrase and network returns exactly that WIF and, with
\* detail, the WIF's wif_type.
C1_EncryptDecryptRoundTrip ==
  /\ (encR.set /\ encR.damage = NoDamage) => encR.encrypted_wif.ok
  /\ SameKeyDecryption =>
       /\ decR.out.ok
       /\ IF decR.detail
          THEN /\ decR.out.val.wif = wifR.wif.val
               /\ decR.out.val.wif_type = wifR.wif_type
          ELSE decR.out.val = wifR.wif.val

\* a round trip that gives the WIF back
C1_RoundTripDone ==
  /\ SameKeyDecryption /\ decR.detail /\ decR.out.ok
  /\ decR.out.val.wif = wifR.wif.val
  /\ decR.out.val.wif_type = wifR.wif_type

\* the inputs given to intermediate_code are valid: no lot and sequence with
\* an owner salt of EntropyLen bytes, or a lot and a sequence in range with
\* an owner salt of SaltLen or EntropyLen bytes
ValidIntermediateInputs ==
  \/ /\ icR.lot = None /\ icR.sequence = None
     /\ Len(icR.owner_salt) = EntropyLen
  \/ /\ icR.lot # None /\ icR.sequence # None
     /\ icR.lot[1] \in LotMin..LotMax
     /\ icR.sequence[1] \in 0..SequenceMax
     /\ Len(icR.owner_salt) \in {SaltLen, EntropyLen}

\* the call was refused because a derived scalar fell outside (0, N)
ScalarRejected(r) ==
  /\ ~r.ok
  /\ r.err \in {"Invalid scalar or private key", "Invalid EC encrypted WIF"}

\* create_new_encrypted_wif was given the intermediate code as made from
\* valid inputs, and a valid public key type
MintedFromValid ==
  /\ icR.set /\ ValidIntermediateInputs
  /\ newR.set /\ newR.damage = NoDamage
  /\ newR.public_key_type \in PublicKeyTypes

\* the address of the key a WIF holds, in the form its wif_type names
AddressOfWif(wif, network) ==
  Pick({
    IF ~d.ok THEN Err(d.err)
    ELSE
    Pick({
      IF ~public_key.ok THEN Err(public_key.err)
      ELSE public_key_to_addresses(get_bytes[public_key.val], network)
      : public_key \in {private_key_to_public_key(
                          d.val.private_key,
                          IF d.val.wif_type = "wif" THEN "uncompressed"
                          ELSE "compressed")}})
    : d \in {decode_wif(wif)}})

\* C2: for valid inputs intermediate_code and create_new_encrypted_wif succeed
\* (unless a derived scalar is outside (0, N)), and bip38_decrypt of the
\* encrypted WIF under the same passphrase and network returns a WIF whose
\* address is the one create_new_encrypted_wif returned and, with detail, the
\* lot and sequence given to intermediate_code.
C2_CreateNewThenDecrypt ==
  /\ (icR.set /\ ValidIntermediateInputs) =>
       icR.code.ok \/ ScalarRejected(icR.code)
  /\ MintedFromValid => newR.created.ok \/ ScalarRejected(newR.created)
  /\ (MintedFromValid /\ decR.set /\ decR.damage = NoDamage
        /\ decR.passphrase = icR.passphrase) =>
       /\ decR.out.ok
       /\ IF decR.detail
          THEN /\ decR.out.val.address = newR.created.val.address
               /\ decR.out.val.lot = icR.lot
               /\ decR.out.val.sequence = icR.sequence
          ELSE AddressOfWif(decR.out.val, decR.network)
                 = Ok(newR.created.val.address)

\* a minted token decrypted into the minted address with its lot and sequence
C2_MintedDecrypted ==
  /\ MintedFromValid /\ icR.lot # None
  /\ decR.set /\ decR.damage = NoDamage /\ decR.passphrase = icR.passphrase
  /\ decR.detail /\ decR.out.ok
  /\ decR.out.val.address = newR.created.val.address
  /\ decR.out.val.lot = icR.lot
  /\ decR.out.val.sequence = icR.sequence

\* the confirmation at hand is of a confirmation code minted from valid
\* inputs, under the passphrase given to intermediate_code
SameKeyConfirmation ==
  /\ MintedFromValid /\ newR.created.ok
  /\ confR.set /\ confR.passphrase = icR.passphrase

\* C3: confirm_code of the confirmation code create_new_encrypted_wif minted
\* from valid inputs, under the passphrase given to intermediate_code and the
\* same network, succeeds and returns the address create_new_encrypted_wif
\* returned and, with detail, the same public_key_type.
C3_ConfirmCodeAgrees ==
  SameKeyConfirmation =>
    /\ confR.out.ok
    /\ IF confR.detail
       THEN /\ confR.out.val.address = newR.created.val.address
            /\ confR.out.val.public_key_type = newR.created.val.public_key_type
       ELSE confR.out.val = newR.created.val.address

\* a confirmation that returns the minted address and public key type
C3_Confirmed ==
  /\ SameKeyConfirmation /\ confR.detail /\ confR.out.ok
  /\ confR.out.val.address = newR.created.val.address
  /\ confR.out.val.public_key_type = newR.created.val.public_key_type

\* the envelope at hand was decrypted as the library made it
UndamagedDecryption == decR.set /\ decR.damage = NoDamage

\* address_hash as BIP38 defines it: the first 4 bytes of the double SHA-256
\* of the address
AddressChecksum(address) == SubSeq(double_sha256[address], 1, CHECKSUM_BYTE_LENGTH)

\* the address_hash field of the encrypted WIF and of the confirmation code
DecryptedEnvelopeHash == Slice(decode[decR.encrypted_wif], 3, HeaderLen)
ConfirmedEnvelopeHash ==
  Slice(decode[newR.created.val.confirmation_code], 6, 6 + CHECKSUM_BYTE_LENGTH)

\* the address bip38_decrypt and confirm_code computed for what they returned;
\* a bare WIF is returned for the address the detailed result names
DecryptedInDetail ==
  bip38_decrypt_of[decR.encrypted_wif, decR.passphrase, decR.network, TRUE]
DecryptedAddress == DecryptedInDetail.val.address
ConfirmedAddress ==
  IF confR.detail THEN confR.out.val.address ELSE confR.out.val

\* the errors raised on a passphrase that does not open the envelope: the
\* address mismatch, a derived scalar outside (0, N), a block of the wrong
\* length given to the cipher
RefusalErrors ==
  {"Incorrect passphrase or password", "Invalid EC encrypted WIF",
   "Invalid Non-EC encrypted WIF", "Invalid scalar or private key",
   "aes block length"}

\* C4 as stated: any passphrase other than the one the envelope was made with
\* makes bip38_decrypt and confirm_code raise 'Incorrect passphrase'.
C4_AnyOtherPassphraseRejected ==
  /\ (UndamagedDecryption /\ decR.passphrase # decR.made_with) =>
       ~decR.out.ok /\ decR.out.err = "Incorrect passphrase or password"
  /\ (confR.set /\ confR.passphrase # icR.passphrase) =>
       ~confR.out.ok /\ confR.out.err = "Incorrect passphrase or password"

\* C4 amended: a passphrase whose NFC form differs from that of the passphrase
\* the envelope was made with makes bip38_decrypt and confirm_code raise, and
\* a value is returned only if the checksum of the recomputed address equals
\* the envelope's address_hash; a different passphrase with the same NFC form
\* gives what the original passphrase gives.
C4_OtherNormalFormRejected ==
  /\ (UndamagedDecryption /\ NFC[decR.passphrase] # NFC[decR.made_with]) =>
       IF decR.out.ok
       THEN /\ DecryptedInDetail.ok
            /\ decR.out.val = IF decR.detail THEN DecryptedInDetail.val
                              ELSE DecryptedInDetail.val.wif
            /\ AddressChecksum(DecryptedAddress) = DecryptedEnvelopeHash
       ELSE decR.out.err \in RefusalErrors
  /\ (confR.set /\ NFC[confR.passphrase] # NFC[icR.passphrase]) =>
       IF confR.out.ok
       THEN AddressChecksum(ConfirmedAddress) = ConfirmedEnvelopeHash
       ELSE confR.out.err \in RefusalErrors
  /\ (UndamagedDecryption /\ NFC[decR.passphrase] = NFC[decR.made_with]) =>
       decR.out = bip38_decrypt_of[decR.encrypted_wif, decR.made_with,
                                   decR.network, decR.detail]
  /\ (confR.set /\ NFC[confR.passphrase] = NFC[icR.passphrase]) =>
       confR.out = confirm_code_of[icR.passphrase,
                                   newR.created.val.confirmation_code,
                                   newR.network, confR.detail]

\* an envelope refused under a passphrase of another normal form
C4_Refused ==
  /\ UndamagedDecryption /\ NFC[decR.passphrase] # NFC[decR.made_with]
  /\ ~decR.out.ok /\ decR.out.err = "Incorrect passphrase or password"
  /\ decR.out.scrypt > 0

\* a token of the right length under an illegal flag
IllegalFlagDecryption ==
  /\ decR.set /\ decR.damage.kind = "flag" /\ decR.damage.flag \in FLAGS.illegal
  /\ Len(decode[decR.encrypted_wif]) = EncryptedWifLen
  /\ bytes_to_integer[Slice(decode[decR.encrypted_wif], 2, 3)] = decR.damage.flag

\* C5: bip38_decrypt rejects every token whose flag byte is in the illegal
\* set with the invalid-flag error and before any scrypt call, under either
\* prefix.
C5_IllegalFlagRejected ==
  IllegalFlagDecryption =>
    /\ ~decR.out.ok
    /\ decR.out.err = "Invalid flag"
    /\ decR.out.scrypt = 0

\* an EC-multiplied token under an illegal flag was handed to bip38_decrypt
C5_IllegalFlagOnEcToken ==
  /\ IllegalFlagDecryption
  /\ Slice(decode[decR.encrypted_wif], 0, 2) = BIP38_EC_MULTIPLIED_PRIVATE_KEY_PREFIX
  /\ decR.out.scrypt > 0

\* the flag byte of an encrypted WIF and of a confirmation code
EncryptedWifFlag(encrypted_wif) == decode[encrypted_wif][3]
ConfirmationCodeFlag(confirmation_code) ==
  decode[confirmation_code][Len(CONFIRMATION_CODE_PREFIX) + 1]

\* C6: every envelope the library produces carries a flag outside the illegal
\* set: bip38_encrypt emits 0xC0 or 0xE0 only, create_new_encrypted_wif emits
\* 0x00, 0x20, 0x04 or 0x24 only and the same flag in the encrypted WIF and in
\* the confirmation code; another magic or public_key_type gives an error and
\* no envelope.
C6_ProducedFlagsLegal ==
  /\ (encR.set /\ encR.encrypted_wif.ok) =>
       /\ EncryptedWifFlag(encR.encrypted_wif.val) \in {192, 224}
       /\ EncryptedWifFlag(encR.encrypted_wif.val) \notin FLAGS.illegal
  /\ (newR.set /\ newR.created.ok) =>
       /\ EncryptedWifFlag(newR.created.val.encrypted_wif) \in {0, 32, 4, 36}
       /\ EncryptedWifFlag(newR.created.val.encrypted_wif) \notin FLAGS.illegal
       /\ ConfirmationCodeFlag(newR.created.val.confirmation_code)
            = EncryptedWifFlag(newR.created.val.encrypted_wif)
  /\ (newR.set /\ (newR.damage = MagicDamage
                   \/ newR.public_key_type \notin PublicKeyTypes)) =>
       ~newR.created.ok

\* a producer has emitted an envelope under its compression flag
C6_EnvelopeProduced ==
  \/ /\ encR.set /\ encR.encrypted_wif.ok
     /\ EncryptedWifFlag(encR.encrypted_wif.val) = 224
  \/ /\ newR.set /\ newR.created.ok
     /\ EncryptedWifFlag(newR.created.val.encrypted_wif) = 36
     /\ ConfirmationCodeFlag(newR.created.val.confirmation_code) = 36

\* the WIF at hand was decoded as private_key_to_wif made it
UndamagedDecoding == wifR.set /\ parseR.set /\ parseR.damage = NoDamage

\* C7: for every private key d of KeyLen bytes, network n and wif_type t,
\* wif_to_private_key(private_key_to_wif(d, t, n)) is d, get_wif_type gives t
\* and get_wif_network gives n.
C7_WifRoundTrip ==
  /\ wifR.set => wifR.wif.ok
  /\ UndamagedDecoding =>
       /\ parseR.wif = wifR.wif.val
       /\ parseR.private_key = Ok(bytes_to_string[wifR.private_key])
       /\ get_bytes[parseR.private_key.val] = wifR.private_key
       /\ parseR.wif_type = Ok(wifR.wif_type)
       /\ parseR.network = Ok(wifR.network)

\* the compressed testnet WIF of a private key with leading zero bytes was
\* decoded
C7_WifDecoded ==
  /\ UndamagedDecoding
  /\ wifR.private_key[1] = 0
  /\ wifR.wif_type = "wif-compressed" /\ wifR.network = "testnet"
  /\ parseR.private_key.ok /\ parseR.wif_type.ok /\ parseR.network.ok
  /\ get_bytes[parseR.private_key.val] = wifR.private_key

\* one conversion and the opposite one were applied to the public key at hand
PublicKeyRoundTrip == pkR.set /\ pkR.stage = 2

\* C8: compress_public_key and uncompress_public_key are mutually inverse on
\* the public keys of the curve, those with leading zero bytes in a
\* coordinate included: compress(uncompress(c)) = c and
\* uncompress(compress(u)) = u.
C8_CompressUncompressInverse ==
  PublicKeyRoundTrip => get_bytes[pkR.second] = pkR.key

\* a public key with a leading zero byte in its X coordinate went through both
\* conversions
C8_LeadingZeroRoundTrip ==
  /\ PublicKeyRoundTrip
  /\ pkR.key[2] = 0
  /\ get_bytes[pkR.second] # pkR.key

\* the WIF handed to the decoders does not end with the checksum of its payload
CorruptedWifDecoding == parseR.set /\ ~parseR.intact
CorruptedWifEncryption == encR.set /\ ~encR.intact

\* C9: wif_to_private_key, get_wif_type, get_wif_checksum, get_wif_network and
\* bip38_encrypt fail on a WIF whose trailing 4 bytes are not the checksum of
\* the preceding payload; such a WIF never yields a private key.
C9_CorruptedWifRejected ==
  /\ CorruptedWifDecoding =>
       /\ ~parseR.private_key.ok
       /\ ~parseR.wif_type.ok
       /\ ~parseR.checksum.ok
       /\ ~parseR.network.ok
  /\ CorruptedWifEncryption => ~encR.encrypted_wif.ok

\* a WIF with a corrupted checksum yielded the private key it was made from
C9_CorruptedWifDecoded ==
  /\ CorruptedWifDecoding
  /\ parseR.damage = ChecksumDamage
  /\ parseR.private_key = Ok(bytes_to_string[wifR.private_key])
  /\ parseR.checksum.ok
  /\ get_bytes[parseR.checksum.val]
       # base58_checksum[SliceDropLast(decode[parseR.wif], CHECKSUM_BYTE_LENGTH)]

\* the token handed to bip38_decrypt has the right length and does not end
\* with the checksum of the bytes before
CorruptedTokenDecryption ==
  /\ decR.set /\ ~decR.intact
  /\ Len(decode[decR.encrypted_wif]) = EncryptedWifLen

\* C10: bip38_decrypt rejects with an encoding error every token whose last 4
\* bytes are not the Base58Check checksum of the bytes before, and never
\* proceeds to key derivation on it.
C10_CorruptedTokenRejected ==
  CorruptedTokenDecryption =>
    /\ ~decR.out.ok
    /\ decR.out.err = "base58 checksum"
    /\ decR.out.scrypt = 0

\* a token with a corrupted checksum was decrypted to the WIF it was made from
C10_CorruptedTokenDecrypted ==
  /\ CorruptedTokenDecryption
  /\ decR.damage = ChecksumDamage
  /\ encR.set /\ encR.damage = NoDamage
  /\ decR.out.ok /\ decR.out.scrypt > 0
  /\ decR.out.val.wif = encR.wif

\* the bytes of the decoded WIF between the version byte and the checksum
WifInner == SliceDropLast(SliceFrom(decode[parseR.wif], 1), CHECKSUM_BYTE_LENGTH)

\* the WIF readers all raised
WifRejected ==
  /\ ~parseR.private_key.ok /\ ~parseR.wif_type.ok
  /\ ~parseR.checksum.ok /\ ~parseR.network.ok

\* C11: a WIF is classified wif-compressed only when its inner payload of
\* KeyLen + 1 bytes ends with 0x01; an inner payload of KeyLen + 1 bytes with
\* another last byte, an inner length other than KeyLen or KeyLen + 1 and an
\* unknown version byte are rejected.
C11_WifClassification ==
  parseR.set =>
    /\ (parseR.wif_type.ok /\ parseR.wif_type.val = "wif-compressed") =>
         /\ Len(WifInner) = KeyLen + 1
         /\ WifInner[KeyLen + 1] = COMPRESSED_PRIVATE_KEY_PREFIX
    /\ (Len(WifInner) = KeyLen + 1
        /\ WifInner[KeyLen + 1] # COMPRESSED_PRIVATE_KEY_PREFIX) => WifRejected
    /\ Len(WifInner) \notin {KeyLen, KeyLen + 1} => WifRejected
    /\ decode[parseR.wif][1] \notin {WIF_PREFIXES.mainnet, WIF_PREFIXES.testnet} =>
         WifRejected

\* a WIF whose inner payload ends with 0x02 was read as wif-compressed
C11_OtherSuffixAccepted ==
  /\ parseR.set /\ parseR.damage = SuffixDamage /\ parseR.intact
  /\ Len(WifInner) = KeyLen + 1 /\ WifInner[KeyLen + 1] = 2
  /\ parseR.wif_type = Ok("wif-compressed")
  /\ parseR.private_key = Ok(bytes_to_string[wifR.private_key])

\* intermediate_code was called with a lot and a sequence in range and an
\* owner salt of SaltLen bytes
LotSequenceInputs ==
  /\ icR.set
  /\ icR.lot # None /\ icR.lot[1] \in LotMin..LotMax
  /\ icR.sequence # None /\ icR.sequence[1] \in 0..SequenceMax
  /\ Len(icR.owner_salt) = SaltLen

\* the payload of the intermediate code, its checksum verified and stripped
IntermediatePayload == check_decode[icR.code.val].val

\* C12: for every lot and sequence in range, sequence 0 included, and every
\* owner salt of SaltLen bytes, intermediate_code succeeds and returns a
\* Base58Check payload of IntermediateLen bytes with the lot/sequence magic
\* and owner_entropy = owner_salt followed by the fixed-width big-endian
\* value lot * SequenceRadix + sequence.
C12_LotSequenceCode ==
  LotSequenceInputs =>
    /\ icR.code.ok
    /\ check_decode[icR.code.val].ok
    /\ Len(IntermediatePayload) = IntermediateLen
    /\ Slice(IntermediatePayload, 0, 8) = MAGIC_LOT_AND_SEQUENCE
    /\ Slice(IntermediatePayload, 8, 8 + EntropyLen)
         = icR.owner_salt
             \o to_bytes[icR.lot[1] * SequenceRadix + icR.sequence[1],
                         EntropyLen - SaltLen]

\* intermediate_code was called with a lot in range and sequence 0 and raised
C12_SequenceZeroRefused ==
  /\ LotSequenceInputs /\ icR.sequence[1] = 0
  /\ ~icR.code.ok
  /\ icR.code.err = "Invalid owner salt length for non lot/sequence"

\* the errors intermediate_code raises on its parameters
ParameterErrors ==
  {"Invalid owner salt length", "Invalid owner salt length for non lot/sequence",
   "Both lot & sequence are required", "Invalid lot",
   "Invalid lot, sequence out of range"}

\* the calls of intermediate_code that are to be refused
LotOutOfRange == icR.lot # None /\ icR.lot[1] \notin LotMin..LotMax
SequenceOutOfRange == icR.sequence # None /\ icR.sequence[1] \notin 0..SequenceMax
SaltOfWrongLength == Len(icR.owner_salt) \notin {SaltLen, EntropyLen}
HalfSupplied == (icR.lot = None) # (icR.sequence = None)
ShortSaltAlone ==
  Len(icR.owner_salt) = SaltLen /\ icR.lot = None /\ icR.sequence = None

\* C13: intermediate_code raises an invalid-parameter error and returns no
\* code when lot or sequence is out of range, when the owner salt has neither
\* length, when exactly one of lot and sequence is supplied (0 included), and
\* when a salt of SaltLen bytes comes with neither.
C13_BadParametersRefused ==
  (icR.set /\ (\/ LotOutOfRange \/ SequenceOutOfRange \/ SaltOfWrongLength
               \/ HalfSupplied \/ ShortSaltAlone)) =>
    ~icR.code.ok /\ icR.code.err \in ParameterErrors

\* intermediate_code was given lot 0 without a sequence and returned a code
C13_LotZeroAloneAccepted ==
  /\ icR.set /\ icR.lot = Some(0) /\ icR.sequence = None
  /\ Len(icR.owner_salt) = EntropyLen
  /\ icR.code.ok
  /\ Slice(IntermediatePayload, 0, 8) = MAGIC_NO_LOT_AND_SEQUENCE

\* the decoded token handed to bip38_decrypt and its fields
DecodedToken == decode[decR.encrypted_wif]
TokenPrefix == Slice(DecodedToken, 0, 2)
TokenFlag == Slice(DecodedToken, 2, 3)
TokenAddressHash == Slice(DecodedToken, 3, HeaderLen)

\* C14: bip38_decrypt dispatches on the decoded length and the first two
\* bytes only: another length than EncryptedWifLen is an invalid-length
\* error; prefix 0x0142 is handled by the non-EC branch alone, prefix 0x0143
\* by the EC branch alone; any other prefix is an invalid-prefix error and no
\* key is derived.
C14_DecryptDispatch ==
  decR.set =>
    IF Len(DecodedToken) # EncryptedWifLen
    THEN decR.out = Traced(Err("Invalid encrypted WIF length"), 0)
    ELSE IF TokenPrefix = BIP38_NO_EC_MULTIPLIED_PRIVATE_KEY_PREFIX
    THEN /\ decR.out = bip38_decrypt_no_ec(DecodedToken, TokenFlag, TokenAddressHash,
                                           decR.passphrase, decR.network, decR.detail)
         /\ decR.out.scrypt <= 1
    ELSE IF TokenPrefix = BIP38_EC_MULTIPLIED_PRIVATE_KEY_PREFIX
    THEN /\ decR.out = bip38_decrypt_ec(DecodedToken, TokenFlag, TokenAddressHash,
                                        decR.passphrase, decR.network, decR.detail)
         /\ decR.out.scrypt >= 1
         /\ decR.out.ok => decR.out.scrypt = 2
    ELSE decR.out = Traced(Err("Invalid prefix"), 0)

\* a token of the right length under prefix 0x0144 was refused before any key
\* derivation
C14_OtherPrefixRefused ==
  /\ decR.set /\ decR.damage = PrefixDamage
  /\ Len(DecodedToken) = EncryptedWifLen /\ TokenPrefix = <<1, 68>>
  /\ ~decR.out.ok /\ decR.out.err = "Invalid prefix" /\ decR.out.scrypt = 0

\* the scrypt output of bip38_encrypt for the WIF, passphrase and network at
\* hand, and the two plaintext blocks it gives to AES
EncryptDerivedKey ==
  scrypt_hash[NFC[encR.passphrase],
              get_checksum(AddressOfWif(encR.wif, encR.network).val),
              16384, 8, 8, ScryptLen]
EncryptPlainBlock1 ==
  xor_bytes(get_bytes[Slice(wif_to_private_key(encR.wif).val, 0, 2 * BlockLen)],
            Slice(EncryptDerivedKey, 0, BlockLen))
EncryptPlainBlock2 ==
  xor_bytes(get_bytes[Slice(wif_to_private_key(encR.wif).val, 2 * BlockLen, 4 * BlockLen)],
            Slice(EncryptDerivedKey, BlockLen, 2 * BlockLen))

\* C15: every XOR result at an AES block boundary has its nominal width: the
\* plaintext blocks of bip38_encrypt and create_new_encrypted_wif are BlockLen
\* bytes, so that AES never refuses a block; the private key and the seed
\* bip38_decrypt recovers are KeyLen and SeedLen bytes, so that the recovered
\* key is never refused for its length.
C15_FixedWidthBlocks ==
  /\ (encR.set /\ encR.damage = NoDamage) =>
       /\ Len(EncryptPlainBlock1) = BlockLen
       /\ Len(EncryptPlainBlock2) = BlockLen
       /\ encR.encrypted_wif.err # "aes block length"
  /\ MintedFromValid => newR.created.err # "aes block length"
  /\ UndamagedDecryption =>
       /\ decR.out.err \notin {"aes block length", "Invalid private key length"}
       /\ (decR.out.ok /\ decR.detail) =>
            /\ Len(get_bytes[decR.out.val.private_key]) = KeyLen
            /\ decR.out.val.seed # None =>
                 Len(get_bytes[decR.out.val.seed]) = SeedLen
  /\ confR.set => confR.out.err # "aes block length"

\* bip38_encrypt gave AES a plaintext block shorter than BlockLen
C15_ShortPlainBlock ==
  /\ encR.set /\ encR.damage = NoDamage
  /\ Len(EncryptPlainBlock1) < BlockLen
  /\ ~encR.encrypted_wif.ok /\ encR.encrypted_wif.err = "aes block length"

\* the magic of the intermediate code given to create_new_encrypted_wif
MintedMagic == Slice(check_decode[newR.intermediate_passphrase].val, 0, 8)

\* the flag of section "select flag from (magic, public_key_type)"
FlagOf(magic, public_key_type) ==
  IF magic = MAGIC_NO_LOT_AND_SEQUENCE
  THEN IF public_key_type = "uncompressed" THEN 0 ELSE 32
  ELSE IF public_key_type = "uncompressed" THEN 4 ELSE 36

\* an encrypted WIF and a confirmation code were made
Minted ==
  /\ newR.set /\ newR.created.ok
  /\ newR.public_key_type \in PublicKeyTypes
  /\ MintedMagic \in {MAGIC_LOT_AND_SEQUENCE, MAGIC_NO_LOT_AND_SEQUENCE}

\* bip38_decrypt returned, with detail, on the encrypted WIF as made
MintedDecryptedInDetail ==
  Minted /\ UndamagedDecryption /\ decR.out.ok /\ decR.detail

\* confirm_code returned, with detail, on the confirmation code as made
MintedConfirmedInDetail == Minted /\ confR.set /\ confR.out.ok /\ confR.detail

\* C16: create_new_encrypted_wif takes the flag from (magic, public_key_type)
\* as 0x00 / 0x20 without and 0x04 / 0x24 with lot and sequence, and
\* bip38_decrypt and confirm_code read it back: the key is compressed exactly
\* when public_key_type was, and the lot/sequence branch is taken exactly when
\* the magic was that of lot and sequence.
C16_FlagSelectedAndReadBack ==
  /\ (newR.set /\ newR.created.ok) =>
       /\ Minted
       /\ EncryptedWifFlag(newR.created.val.encrypted_wif)
            = FlagOf(MintedMagic, newR.public_key_type)
       /\ ConfirmationCodeFlag(newR.created.val.confirmation_code)
            = FlagOf(MintedMagic, newR.public_key_type)
       /\ newR.created.val.public_key_type = newR.public_key_type
  /\ MintedDecryptedInDetail =>
       /\ decR.out.val.public_key_type = newR.public_key_type
       /\ (decR.out.val.wif_type = "wif-compressed")
            = (newR.public_key_type = "compressed")
       /\ (decR.out.val.wif_type = "wif") = (newR.public_key_type = "uncompressed")
       /\ (decR.out.val.lot # None) = (MintedMagic = MAGIC_LOT_AND_SEQUENCE)
       /\ (decR.out.val.sequence # None) = (MintedMagic = MAGIC_LOT_AND_SEQUENCE)
  /\ MintedConfirmedInDetail =>
       /\ confR.out.val.public_key_type = newR.public_key_type
       /\ (confR.out.val.lot # None) = (MintedMagic = MAGIC_LOT_AND_SEQUENCE)
       /\ (confR.out.val.sequence # None) = (MintedMagic = MAGIC_LOT_AND_SEQUENCE)
  /\ \A f \in {0, 32, 4, 36} :
       /\ (f \in FLAGS.compression) = (f \in {32, 36})
       /\ (f \in FLAGS.lot_and_sequence) = (f \in {4, 36})

\* a compressed key made with lot and sequence was read back as such
C16_CompressedLotRead ==
  /\ MintedDecryptedInDetail
  /\ EncryptedWifFlag(decR.encrypted_wif) = 36
  /\ decR.out.val.wif_type = "wif-compressed"
  /\ decR.out.val.lot # None

\* intermediate_code was given a lot and a sequence in range, whatever the rest
LotSequenceInRange ==
  /\ icR.set
  /\ icR.lot # None /\ icR.lot[1] \in LotMin..LotMax
  /\ icR.sequence # None /\ icR.sequence[1] \in 0..SequenceMax

\* the lot/sequence field of that lot and sequence
GivenField == lot_and_sequence_field(icR.lot[1], icR.sequence[1])

\* the encrypted WIF was made from an intermediate code with lot and sequence
MintedWithLot == Minted /\ MintedMagic = MAGIC_LOT_AND_SEQUENCE

\* C17: for every lot and sequence in range the value
\* lot * SequenceRadix + sequence fits the fixed-width big-endian field, and
\* the decoders' sequence = v mod SequenceRadix, lot = (v - sequence) div
\* SequenceRadix on that field give back the lot and the sequence.
C17_LotSequenceFieldRoundTrip ==
  /\ LotSequenceInRange =>
       /\ Len(GivenField) = EntropyLen - SaltLen
       /\ bytes_to_integer[GivenField]
            = icR.lot[1] * SequenceRadix + icR.sequence[1]
       /\ decoded_sequence(GivenField) = icR.sequence[1]
       /\ decoded_lot(GivenField, decoded_sequence(GivenField)) = icR.lot[1]
  /\ (MintedWithLot /\ MintedDecryptedInDetail) =>
       /\ Slice(DecodedToken, HeaderLen + SaltLen, HeaderLen + EntropyLen) = GivenField
       /\ decR.out.val.lot = icR.lot
       /\ decR.out.val.sequence = icR.sequence
  /\ (MintedWithLot /\ MintedConfirmedInDetail) =>
       /\ confR.out.val.lot = icR.lot
       /\ confR.out.val.sequence = icR.sequence

\* confirm_code read the lot and the sequence back from the confirmation code
C17_LotSequenceReadBack ==
  /\ MintedWithLot /\ MintedConfirmedInDetail /\ LotSequenceInRange
  /\ confR.out.val.lot = Some(LotMax)
  /\ confR.out.val.sequence = Some(SequenceMax)

\* bip38_decrypt was handed a token of EncryptedWifLen bytes with prefix 0x0142
\* and one of the two non-EC flags
NoEcDecryption ==
  /\ decR.set
  /\ Len(DecodedToken) = EncryptedWifLen
  /\ TokenPrefix = BIP38_NO_EC_MULTIPLIED_PRIVATE_KEY_PREFIX
  /\ TokenFlag \in {octet(BIP38_NO_EC_MULTIPLIED_WIF_FLAG),
                    octet(BIP38_NO_EC_MULTIPLIED_WIF_COMPRESSED_FLAG)}

\* the scrypt key of that decryption
NoEcDerivedKey == scrypt_hash[NFC[decR.passphrase], TokenAddressHash, 16384, 8, 8, ScryptLen]

\* the scalar d the non-EC branch recovers from the two encrypted halves
RecoveredScalar ==
  bytes_to_integer[
    xor_bytes(aes_decrypt[Slice(NoEcDerivedKey, 2 * BlockLen, 4 * BlockLen),
                          Slice(DecodedToken, HeaderLen, HeaderLen + BlockLen)].val
              \o aes_decrypt[Slice(NoEcDerivedKey, 2 * BlockLen, 4 * BlockLen),
                             Slice(DecodedToken, HeaderLen + BlockLen,
                                   HeaderLen + 2 * BlockLen)].val,
              Slice(NoEcDerivedKey, 0, 2 * BlockLen))]

\* the address the non-EC branch computes from the recovered scalar
RecoveredAddress ==
  public_key_to_addresses(
    get_bytes[private_key_to_public_key(
                integer_to_bytes[RecoveredScalar],
                IF TokenFlag = octet(BIP38_NO_EC_MULTIPLIED_WIF_FLAG)
                THEN "uncompressed" ELSE "compressed").val],
    decR.network)

\* C18: in the non-EC branch of bip38_decrypt a recovered scalar d with d = 0
\* or d >= N is refused with the invalid-encrypted-WIF error, not with an
\* error of the public-key or address computation, and the
\* incorrect-passphrase error is raised only when 0 < d < N and the checksum of
\* the recomputed address differs from address_hash.
C18_NoEcFailuresOrdered ==
  NoEcDecryption =>
    /\ (RecoveredScalar = 0 \/ RecoveredScalar >= N)
         => decR.out = Traced(Err("Invalid Non-EC encrypted WIF"), 1)
    /\ (~decR.out.ok /\ decR.out.err = "Invalid Non-EC encrypted WIF")
         => (RecoveredScalar = 0 \/ RecoveredScalar >= N)
    /\ (~decR.out.ok /\ decR.out.err = "Incorrect passphrase or password")
         => /\ 0 < RecoveredScalar /\ RecoveredScalar < N
            /\ RecoveredAddress.ok
            /\ get_checksum(RecoveredAddress.val) # TokenAddressHash

\* a non-EC token whose halves hold the scalar 0 was refused as invalid
C18_ZeroScalarRefused ==
  /\ NoEcDecryption /\ decR.damage = ScalarDamage(0)
  /\ RecoveredScalar = 0
  /\ ~decR.out.ok /\ decR.out.err = "Invalid Non-EC encrypted WIF"

\* The group of the curve: the point at infinity, the opposite of a point,
\* and the sum of two points whichever they are.
Infinity == <<>>

OnCurve(a) ==
  /\ Len(a) = 2 /\ a[1] \in 0..(P - 1) /\ a[2] \in 0..(P - 1)
  /\ mul_mod[a[2], a[2], P] = (mul_mod[mul_mod[a[1], a[1], P], a[1], P] + B_CURVE) % P

Opposite(a) == IF a = Infinity THEN Infinity ELSE <<a[1], (P - a[2]) % P>>

GroupAdd(a, b) ==
  IF a = Infinity THEN b
  ELSE IF b = Infinity THEN a
  ELSE IF a[1] # b[1] THEN ec_add[a, b]
  ELSE IF a[2] = b[2] /\ a[2] # 0 THEN ec_double[a]
  ELSE Infinity

\* the multiple k.a of the group, from the least significant bit of k up
GroupMultiple[a \in Seq(Int), k \in Nat] ==
  IF k = 0 THEN Infinity
  ELSE IF k % 2 = 0 THEN GroupMultiple[GroupAdd(a, a), k \div 2]
  ELSE GroupAdd(a, GroupMultiple[GroupAdd(a, a), k \div 2])

\* ecc_multiply was called on a point of order N
Multiplied ==
  /\ mulR.set
  /\ OnCurve(mulR.gen_point)
  /\ GroupMultiple[mulR.gen_point, N] = Infinity

ScalarInRange == 0 < mulR.scalar_hex /\ mulR.scalar_hex < N

\* C19: ecc_multiply(P, k) raises for k = 0 and for every k >= N, and for
\* every 0 < k < N returns the multiple k.P of the group, which the loop
\* reaches from the accumulator P by doubling for each bit after the most
\* significant one and adding P when that bit is 1.
C19_EccMultiplyIsGroupMultiple ==
  Multiplied =>
    IF ScalarInRange
    THEN /\ mulR.out.ok
         /\ mulR.out.val = GroupMultiple[mulR.gen_point, mulR.scalar_hex]
         /\ OnCurve(mulR.out.val)
         /\ mulR.out.val
              = ecc_multiply_loop[mulR.gen_point, mulR.gen_point, bin[mulR.scalar_hex], 2]
         /\ mulR.scalar_hex = 1 => mulR.out.val = mulR.gen_point
         /\ mulR.scalar_hex = 3
              => mulR.out.val = ec_add[ec_double[mulR.gen_point], mulR.gen_point]
         /\ mulR.scalar_hex = N - 1 => mulR.out.val = Opposite(mulR.gen_point)
    ELSE mulR.out = Err("Invalid scalar or private key")

\* ecc_multiply returned the opposite of a multiple of the generator for N - 1
C19_LargestScalarMultiplied ==
  /\ Multiplied /\ mulR.gen_point # G_POINT
  /\ mulR.scalar_hex = N - 1
  /\ mulR.out.ok /\ mulR.out.val = Opposite(mulR.gen_point)

\* C20: for every point P of order N and every scalar 0 < k < N, no ec_add
\* call of ecc_multiply has two operands with the same x coordinate, neither
\* P + P nor P + (-P): each call adds P to a multiple of P that is neither P,
\* -P nor the point at infinity, and the sum is not the point at infinity.
C20_NoEqualXAddition ==
  (Multiplied /\ ScalarInRange) =>
    \A i \in 1..Len(mulR.adds) :
      /\ mulR.adds[i].b = mulR.gen_point
      /\ OnCurve(mulR.adds[i].a)
      /\ mulR.adds[i].a[1] # mulR.adds[i].b[1]
      /\ GroupAdd(mulR.adds[i].a, mulR.adds[i].b) # Infinity
      /\ GroupAdd(mulR.adds[i].a, mulR.adds[i].b) = ec_add[mulR.adds[i].a, mulR.adds[i].b]

\* ecc_multiply made an ec_add call for every bit after the first of N - 2
C20_AdditionsMade ==
  /\ Multiplied /\ mulR.scalar_hex = N - 2
  /\ Len(mulR.adds) >= 2
  /\ \A i \in 1..Len(mulR.adds) : mulR.adds[i].a[1] # mulR.gen_point[1]

\* two calls of intermediate_code without owner_salt with equal arguments,
\* and two of create_new_encrypted_wif without seed
SameIntermediateCall ==
  /\ dflR.ic_first.set /\ dflR.ic_again.set
  /\ dflR.ic_again.passphrase = dflR.ic_first.passphrase
  /\ dflR.ic_again.lot = dflR.ic_first.lot
  /\ dflR.ic_again.sequence = dflR.ic_first.sequence

SameCreateCall ==
  /\ dflR.new_first.set /\ dflR.new_again.set
  /\ dflR.new_again.public_key_type = dflR.new_first.public_key_type
  /\ dflR.new_again.network = dflR.new_first.network

\* C21: the default owner_salt and seed are fixed at the load of the module:
\* every call of intermediate_code without owner_salt uses the same salt of
\* EntropyLen bytes and every call of create_new_encrypted_wif without seed
\* the same seed of SeedLen bytes, so two such calls with equal remaining
\* arguments return the same intermediate code, the same encrypted WIF and
\* the same address.
C21_DefaultsFixedAtLoad ==
  /\ Len(dflR.owner_salt) = EntropyLen /\ Len(dflR.seed) = SeedLen
  /\ \A call \in {dflR.ic_first, dflR.ic_again} :
       call.set => call.owner_salt = dflR.owner_salt
  /\ \A call \in {dflR.new_first, dflR.new_again} :
       call.set => call.seed = dflR.seed
  /\ SameIntermediateCall => dflR.ic_again.code = dflR.ic_first.code
  /\ SameCreateCall => dflR.new_again.created = dflR.new_first.created

\* two calls of each function without the argument, with equal remaining
\* arguments, gave one intermediate code and one encrypted WIF and address
C21_CalledTwice ==
  /\ SameIntermediateCall /\ SameCreateCall
  /\ dflR.ic_first.code.ok /\ dflR.new_first.created.ok
  /\ dflR.ic_first.lot # None
  /\ dflR.owner_salt # <<1, 2>>
  /\ dflR.new_again.created.val.encrypted_wif = dflR.new_first.created.val.encrypted_wif
  /\ dflR.new_again.created.val.address = dflR.new_first.created.val.address

====
